---- MODULE Spec2Model ----
(***************************************************************************)
(* Model of the agent server: the tool-calling loop (tool-executor.js),    *)
(* the chat route of the server (index.js) and the conversation store      *)
(* (db.js).                                                                *)
(*                                                                         *)
(* Strings are modelled as sequences of tokens: "" is <<>>, concatenation  *)
(* is \o, s.startsWith(p) looks at the first token.  A JavaScript value is *)
(* a record [t |-> its typeof, v |-> its text].                            *)
(***************************************************************************)
EXTENDS Integers, Sequences, FiniteSets, TLC

\* ------------------------------------------------------------------ bounds
\* Largest iteration ceiling a direct caller of chatWithTools passes.
MaxIter == 2
\* Tool calls the model runtime requests in one run, all batches together.
MaxCalls == 2
\* Tool calls the model runtime requests while serving one chat request.
MaxChatCalls == 1
\* Invocations of the function executors that are looked at together.
MaxInvocations == 2
\* Rows of table messages while the store is operated on its own.
MaxMessages == 3

\* ------------------------------------------------------------- vocabulary
\* The requests (and direct callers) there may be.
AllReqs == {"r1", "r2"}

EmptyString == <<>>

StartsWith(s, p) == Len(s) > 0 /\ s[1] = p

Truthy(s) == s # EmptyString

GitHubListRepos == <<"github_", "list_repos">>
LinearListTeams == <<"linear_", "list_teams">>
GitHubBogus == <<"github_", "bogus">>
WebSearch == <<"web_search">>

\* Function names the model runtime may put in a tool call: two catalogued
\* functions, one with a routed prefix that no executor knows, one unrouted.
FunctionNames == {GitHubListRepos, LinearListTeams, GitHubBogus, WebSearch}

ObjectArgs == [t |-> "object", v |-> <<"{}">>]
JsonStringArgs == [t |-> "string", v |-> <<"{}">>]
BadStringArgs == [t |-> "string", v |-> <<"{oops">>]
AbsentArgs == [t |-> "undefined", v |-> EmptyString]

\* Argument payloads: an object, a JSON string, a string that is no JSON,
\* and no arguments field at all.
ArgumentValues == {ObjectArgs, JsonStringArgs, BadStringArgs, AbsentArgs}

Credentials == {EmptyString, <<"secret">>}

NoId == <<>>

NoCalls == <<>>

\* A chat message; tool_calls is NoCalls and tool_call_id is NoId when the
\* object has no such property.
Message(role, content, tool_calls, tool_call_id) ==
  [role |-> role, content |-> content, tool_calls |-> tool_calls,
   tool_call_id |-> tool_call_id]

SystemMessage == Message("system", <<"instructions">>, NoCalls, NoId)
UserMessage == Message("user", <<"hi">>, NoCalls, NoId)

\* --------------------------------------------------------------- executors
JSONError(msg) == <<"{error:">> \o msg \o <<"}">>

JSONErrorTool(msg, tool) == <<"{error:">> \o msg \o <<",tool:">> \o tool \o <<"}">>

\* Faulty variant of JSONParse: any text is taken for an object.
JSONParseLenient(text) == [ok |-> TRUE, value |-> ObjectArgs]

JSONParse(text) ==
  IF text = <<"{}">> THEN [ok |-> TRUE, value |-> ObjectArgs]
  ELSE [ok |-> FALSE, value |-> AbsentArgs]

\* JSON.stringify: a string for an object, undefined for undefined.
JSONStringify(value) ==
  IF value.t = "undefined" THEN [t |-> "undefined", v |-> EmptyString]
  ELSE [t |-> "string", v |-> value.v]

Resolved(content) == [status |-> "resolved", content |-> content, doneAt |-> 0]
Rejected(error) == [status |-> "rejected", content |-> error, doneAt |-> 0]
InFlight == [status |-> "inflight", content |-> EmptyString, doneAt |-> 0]

TypeErrorSubstring == <<"Cannot read properties of undefined (reading 'substring')">>

\* executeTool up to its first await: the promise it returns is already
\* resolved (a per-call error), already rejected (an exception outside the
\* try block), or pending on the executor's network call.
ExecuteToolSync(toolCall, githubToken, linearApiKey) ==
  LET functionName == toolCall.name
      raw == toolCall.arguments
      parsed == IF raw.t = "string" THEN JSONParse(raw.v)
                ELSE [ok |-> TRUE, value |-> raw]
  IN IF ~parsed.ok THEN Resolved(JSONError(<<"Invalid JSON arguments">>))
     ELSE IF JSONStringify(parsed.value).t = "undefined"
       THEN Rejected(TypeErrorSubstring)
     ELSE IF StartsWith(functionName, "github_")
       THEN IF ~Truthy(githubToken)
              THEN Resolved(JSONErrorTool(<<"GitHub token not configured">>, functionName))
              ELSE InFlight
     ELSE IF StartsWith(functionName, "linear_")
       THEN IF ~Truthy(linearApiKey)
              THEN Resolved(JSONErrorTool(<<"Linear API key not configured">>, functionName))
              ELSE InFlight
     ELSE Resolved(JSONErrorTool(<<"Unknown tool: ">> \o functionName, functionName))

NetworkOutcomes == {"ok", "failed"}

\* github.executeFunction / linear.executeFunction, serialized by executeTool.
ExecutorResult(functionName, outcome) ==
  IF functionName = GitHubListRepos
    THEN IF outcome = "ok" THEN <<"{repos:", "[]", "}">>
         ELSE JSONError(<<"Network Error">>)
  ELSE IF functionName = LinearListTeams
    THEN IF outcome = "ok" THEN <<"[]">>
         ELSE JSONError(<<"Failed to list teams: ", "Network Error">>)
  ELSE JSONError(<<"Unknown function: ">> \o functionName)

\* --------------------------------------------------------- executeFunction
GitHubGetRepo == <<"github_", "get_repo">>
LinearListProjects == <<"linear_", "list_projects">>
LinearBogus == <<"linear_", "bogus">>

FilledArgs == [t |-> "object", v |-> <<"{repo:", "o/r", ",teamId:", "t1", "}">>]
NullArgs == [t |-> "object", v |-> <<"null">>]

\* The args the executors are given: {}, an object with the fields asked
\* for, null, and undefined.
ExecutorArgs == {ObjectArgs, FilledArgs, NullArgs, AbsentArgs}

\* How an evaluation ends: with a value, or with an exception.
Returned(value) == [how |-> "returned", value |-> value]
Thrown(message) == [how |-> "thrown", value |-> message]

ErrorObject(message) == [t |-> "object", v |-> JSONError(message)]

\* args.<field>: a TypeError on null and undefined, undefined when the
\* object has no such field.
Field(args, field) ==
  IF args.t = "undefined" \/ args = NullArgs
    THEN Thrown(<<"Cannot read properties of ">> \o args.v \o <<" (reading '", field, "')">>)
  ELSE IF args = FilledArgs THEN Returned([t |-> "string", v |-> <<field>>])
  ELSE Returned([t |-> "undefined", v |-> EmptyString])

github_list_repos(token, outcome) ==
  IF outcome = "ok" THEN Returned([t |-> "object", v |-> <<"{repos:", "[]", "}">>])
  ELSE Returned(ErrorObject(<<"Network Error">>))

github_get_repo(token, repo, outcome) ==
  IF outcome # "ok" THEN Returned(ErrorObject(<<"Network Error">>))
  ELSE IF repo.t # "string" THEN Returned(ErrorObject(<<"Not Found">>))
  ELSE Returned([t |-> "object", v |-> <<"{repository:", "{}", "}">>])

\* The case labels of the switch.
GitHubCases ==
  {GitHubListRepos, <<"github_", "search_repos">>, <<"github_", "get_file">>,
   <<"github_", "list_files">>, <<"github_", "search_code">>,
   <<"github_", "list_issues">>, <<"github_", "create_issue">>,
   <<"github_", "list_pulls">>, GitHubGetRepo, <<"github_", "list_branches">>,
   <<"github_", "create_or_update_file">>}

\* github-client executeFunction: the switch and all its argument reads are
\* inside one try block. Every case but the first reads fields of args and
\* makes one request, as github_get_repo does.
GitHubExecuteFunction(name, args, token, outcome) ==
  LET repo == Field(args, "repo")
      body == IF name = GitHubListRepos THEN github_list_repos(token, outcome)
              ELSE IF name \in GitHubCases
                THEN IF repo.how = "thrown" THEN repo
                     ELSE github_get_repo(token, repo.value, outcome)
              ELSE Returned(ErrorObject(<<"Unknown function: ">> \o name))
  IN IF body.how = "thrown" THEN Returned(ErrorObject(body.value)) ELSE body

\* graphql: a failed post is thrown on.
graphql(apiKey, outcome, data) ==
  IF outcome = "ok" THEN Returned(data) ELSE Thrown(<<"Network Error">>)

linear_list_teams(apiKey, outcome) ==
  LET data == graphql(apiKey, outcome, [t |-> "object", v |-> <<"[]">>])
  IN IF data.how = "thrown"
       THEN Returned(ErrorObject(<<"Failed to list teams: ">> \o data.value))
       ELSE data

linear_list_projects(apiKey, teamId, outcome) ==
  LET data == graphql(apiKey, outcome, [t |-> "object", v |-> <<"[]">>])
  IN IF data.how = "thrown"
       THEN Returned(ErrorObject(<<"Failed to list projects: ">> \o data.value))
       ELSE data

\* Faulty variant of LinearFunctionMap: five of the catalogued functions
\* have no entry.
LinearFunctionMapShort == {LinearListTeams, LinearListProjects}

\* The keys of functionMap.
LinearFunctionMap ==
  {LinearListTeams, LinearListProjects, <<"linear_", "list_issues">>,
   <<"linear_", "search_issues">>, <<"linear_", "create_issue">>,
   <<"linear_", "update_issue">>, <<"linear_", "list_states">>}

\* Faulty variant of LinearExecuteFunction: the arguments are read while the
\* map is built, before the try block.
LinearExecuteFunctionEager(name, args, apiKey, outcome) ==
  LET teamId == Field(args, "teamId")
  IN IF teamId.how = "thrown" THEN teamId
     ELSE IF name \notin LinearFunctionMap
       THEN Returned(ErrorObject(<<"Unknown function: ">> \o name))
     ELSE IF name = LinearListTeams THEN linear_list_teams(apiKey, outcome)
     ELSE linear_list_projects(apiKey, teamId.value, outcome)

\* linear-client executeFunction: the map holds closures, which read the
\* arguments when they are called, inside the try block. Every closure but
\* the first reads fields of args and posts one query, as that of
\* linear_list_projects does.
LinearExecuteFunction(name, args, apiKey, outcome) ==
  LET teamId == Field(args, "teamId")
      body == IF name = LinearListTeams THEN linear_list_teams(apiKey, outcome)
              ELSE IF teamId.how = "thrown" THEN teamId
              ELSE linear_list_projects(apiKey, teamId.value, outcome)
  IN IF name \notin LinearFunctionMap
       THEN Returned(ErrorObject(<<"Unknown function: ">> \o name))
     ELSE IF body.how = "thrown"
       THEN Returned(ErrorObject(<<"Function execution failed: ">> \o body.value))
     ELSE body

\* ---------------------------------------------------------- chatWithTools
NoResult ==
  [message |-> EmptyString, toolResults |-> <<>>, iterations |-> 0,
   maxIterationsReached |-> FALSE]

\* The locals of one call of chatWithTools, with what it has observably done:
\* sent (the message sequences posted to the model runtime), received (the
\* responses), dispatched (the calls handed to an executor).
IdleRun ==
  [pc |-> "idle", messages |-> <<>>, githubToken |-> EmptyString,
   linearApiKey |-> EmptyString, maxIterations |-> 0, iterations |-> 0,
   currentMessages |-> <<>>, allToolResults |-> <<>>,
   calls |-> NoCalls, exec |-> <<>>, completions |-> 0,
   sent |-> <<>>, received |-> <<>>, dispatched |-> <<>>,
   result |-> NoResult, error |-> EmptyString]

DefaultFallbackText == <<"Max tool iterations reached">>

\* Faulty variant of LoopHead: the fallback text is taken from the last
\* assistant message of the working sequence.
LoopHeadLastAssistant(st) ==
  IF st.iterations < st.maxIterations
    THEN [st EXCEPT !.iterations = @ + 1,
                    !.sent = Append(@, st.currentMessages),
                    !.pc = "awaitModel"]
    ELSE LET a == SelectSeq(st.currentMessages, LAMBDA m : m.role = "assistant")
             last == IF Len(a) > 0 THEN a[Len(a)].content ELSE EmptyString
         IN [st EXCEPT !.pc = "returned",
                       !.result = [message |-> IF Truthy(last) THEN last
                                               ELSE DefaultFallbackText,
                                   toolResults |-> st.allToolResults,
                                   iterations |-> st.iterations,
                                   maxIterationsReached |-> TRUE]]

\* The while condition, and then either the next request (up to its await)
\* or the fallback result.
LoopHead(st) ==
  IF st.iterations < st.maxIterations
    THEN [st EXCEPT !.iterations = @ + 1,
                    !.sent = Append(@, st.currentMessages),
                    !.pc = "awaitModel"]
    ELSE LET n == Len(st.currentMessages)
             last == IF n > 0 THEN st.currentMessages[n].content ELSE EmptyString
         IN [st EXCEPT !.pc = "returned",
                       !.result = [message |-> IF Truthy(last) THEN last
                                               ELSE DefaultFallbackText,
                                   toolResults |-> st.allToolResults,
                                   iterations |-> st.iterations,
                                   maxIterationsReached |-> TRUE]]

ChatWithTools(messages, githubToken, linearApiKey, maxIterations) ==
  LoopHead([IdleRun EXCEPT !.messages = messages,
                           !.currentMessages = messages,
                           !.githubToken = githubToken,
                           !.linearApiKey = linearApiKey,
                           !.maxIterations = maxIterations])

\* Faulty variant of AllSettled: done once one promise is fulfilled.
AnySettled(exec) == \E i \in DOMAIN exec : exec[i].status = "resolved"

\* Promise.all is fulfilled once every promise of the batch is.
AllSettled(exec) == \A i \in DOMAIN exec : exec[i].status = "resolved"

\* The calls of a batch in the order their promises were fulfilled.
CompletionOrder(exec) ==
  CHOOSE p \in [DOMAIN exec -> DOMAIN exec] :
    /\ \A i, j \in DOMAIN exec : i # j => p[i] # p[j]
    /\ \A i, j \in DOMAIN exec :
         i < j => \/ exec[p[i]].doneAt < exec[p[j]].doneAt
                  \/ exec[p[i]].doneAt = exec[p[j]].doneAt /\ p[i] < p[j]

\* Faulty variant of ProcessToolCalls: results in completion order.
ProcessToolCallsAsCompleted(toolCalls, exec) ==
  LET p == CompletionOrder(exec)
  IN [i \in DOMAIN toolCalls |->
        [tool_call_id |-> toolCalls[p[i]].id, role |-> "tool",
         content |-> exec[p[i]].content]]

\* processToolCalls: one result per call, in the order of toolCalls.
ProcessToolCalls(toolCalls, exec) ==
  [i \in DOMAIN toolCalls |->
     [tool_call_id |-> toolCalls[i].id, role |-> "tool", content |-> exec[i].content]]

\* The message chatWithTools pushes for one result.
ToolMessage(res) == Message("tool", res.content, NoCalls, NoId)

\* Faulty variant of Push: currentMessages is the caller's array itself.
PushToInput(st, msgs) ==
  [st EXCEPT !.currentMessages = @ \o msgs, !.messages = @ \o msgs]

\* currentMessages.push(...): currentMessages is the array made by
\* [...messages], so the caller's array does not grow with it.
Push(st, msgs) == [st EXCEPT !.currentMessages = @ \o msgs]

\* Faulty variant of PushResults: the results of a batch go into one message.
PushResultsMerged(st, results) ==
  Push([st EXCEPT !.allToolResults = @ \o results],
       IF results = <<>> THEN <<>> ELSE <<ToolMessage(results[1])>>)

PushResults(st, results) ==
  Push([st EXCEPT !.allToolResults = @ \o results],
       [i \in DOMAIN results |-> ToolMessage(results[i])])

\* The await on processToolCalls: it throws when a promise of the batch is
\* rejected, goes on waiting while one is pending, and otherwise the results
\* are pushed and the loop goes round.
AwaitToolCalls(st) ==
  IF \E i \in DOMAIN st.exec : st.exec[i].status = "rejected"
    THEN LET i == CHOOSE j \in DOMAIN st.exec :
                    /\ st.exec[j].status = "rejected"
                    /\ \A k \in 1..(j - 1) : st.exec[k].status # "rejected"
         IN [st EXCEPT !.pc = "raised", !.error = st.exec[i].content]
  ELSE IF AllSettled(st.exec)
    THEN LoopHead(PushResults(st, ProcessToolCalls(st.calls, st.exec)))
  ELSE [st EXCEPT !.pc = "awaitTools"]

\* The ids of the calls of a batch whose executor is invoked.
Invoked(toolCalls, exec) ==
  LET F[n \in 0..Len(toolCalls)] ==
        IF n = 0 THEN <<>>
        ELSE IF exec[n].status = "inflight" THEN Append(F[n - 1], toolCalls[n].id)
        ELSE F[n - 1]
  IN F[Len(toolCalls)]

\* Faulty variant of OnAssistantMessage: an answer without text is not taken
\* as final, the loop asks again.
OnAssistantMessageInsisting(st, assistantMsg) ==
  IF Len(assistantMsg.tool_calls) > 0
    THEN LET toolCalls == assistantMsg.tool_calls
             exec == [i \in DOMAIN toolCalls |->
                        ExecuteToolSync(toolCalls[i], st.githubToken, st.linearApiKey)]
         IN AwaitToolCalls([st EXCEPT !.currentMessages = Append(@, assistantMsg),
                                      !.calls = toolCalls,
                                      !.exec = exec,
                                      !.dispatched = @ \o Invoked(toolCalls, exec)])
  ELSE IF ~Truthy(assistantMsg.content) THEN LoopHead(st)
  ELSE [st EXCEPT !.pc = "returned",
                  !.result = [message |-> assistantMsg.content,
                              toolResults |-> st.allToolResults,
                              iterations |-> st.iterations,
                              maxIterationsReached |-> FALSE]]

\* The response is there: tool calls are dispatched and awaited, a message
\* without tool calls is the final answer.
OnAssistantMessage(st, assistantMsg) ==
  IF Len(assistantMsg.tool_calls) > 0
    THEN LET toolCalls == assistantMsg.tool_calls
             exec == [i \in DOMAIN toolCalls |->
                        ExecuteToolSync(toolCalls[i], st.githubToken, st.linearApiKey)]
         IN AwaitToolCalls([Push(st, <<assistantMsg>>) EXCEPT
                                      !.calls = toolCalls,
                                      !.exec = exec,
                                      !.dispatched = @ \o Invoked(toolCalls, exec)])
    ELSE [st EXCEPT !.pc = "returned",
                    !.result = [message |-> assistantMsg.content,
                                toolResults |-> st.allToolResults,
                                iterations |-> st.iterations,
                                maxIterationsReached |-> FALSE]]

\* Faulty variant of OnModelResponse: a failed request is swallowed and the
\* loop goes round.
OnModelResponseRetrying(st, response) ==
  IF ~response.ok THEN LoopHead(st)
  ELSE OnAssistantMessage(st, response.message)

\* What follows `await ollamaClient.post(...)`: the catch block rethrows.
OnModelResponse(st, response) ==
  IF ~response.ok
    THEN [st EXCEPT !.pc = "raised", !.error = response.error]
  ELSE OnAssistantMessage(st, response.message)

\* Faulty variant of OnExecutorDone: a call that failed is made again.
OnExecutorDoneRetrying(st, i, outcome) ==
  IF outcome = "failed"
    THEN [st EXCEPT !.dispatched = Append(@, st.calls[i].id)]
    ELSE LET done == [st EXCEPT !.completions = @ + 1,
                                !.exec[i] = [status |-> "resolved",
                                             content |-> ExecutorResult(st.calls[i].name, outcome),
                                             doneAt |-> st.completions + 1]]
         IN IF st.pc = "awaitTools" THEN AwaitToolCalls(done) ELSE done

\* An executor's network call ends: the promise of call i is resolved.  When
\* chatWithTools has already thrown, nobody awaits it any more.
OnExecutorDone(st, i, outcome) ==
  LET done == [st EXCEPT !.completions = @ + 1,
                         !.exec[i] = [status |-> "resolved",
                                      content |-> ExecutorResult(st.calls[i].name, outcome),
                                      doneAt |-> st.completions + 1]]
  IN IF st.pc = "awaitTools" THEN AwaitToolCalls(done) ELSE done

\* ------------------------------------------------------- the model runtime
ConnectionRefused == <<"connect ECONNREFUSED">>
BadStatus == <<"Request failed with status code 500">>

FailedResponse(error) ==
  [ok |-> FALSE, message |-> Message("assistant", EmptyString, NoCalls, NoId),
   error |-> error]

OkResponse(content, toolCalls) ==
  [ok |-> TRUE, message |-> Message("assistant", content, toolCalls, NoId),
   error |-> EmptyString]

\* A failed request, or an answer without tool calls.
PlainResponses ==
  {FailedResponse(e) : e \in {ConnectionRefused, BadStatus}}
    \cup {OkResponse(c, NoCalls) : c \in {EmptyString, <<"answer">>}}

CallKinds == [name : FunctionNames, arguments : ArgumentValues]

\* The batches of n calls of iteration it; the runtime numbers its calls.
Batches(kinds, it, n) ==
  {[i \in 1..n |-> [id |-> <<it, i>>, name |-> k[i].name, arguments |-> k[i].arguments]] :
     k \in [1..n -> kinds]}

\* The responses the runtime may give to the request of st, when it may still
\* request `limit` tool calls in all, of the given kinds.
Responses(st, kinds, limit) ==
  LET left == limit - Len(st.allToolResults)
  IN PlainResponses
     \cup UNION {{OkResponse(EmptyString, b) : b \in Batches(kinds, st.iterations, n)} :
                   n \in 1..(IF left > 0 THEN left ELSE 0)}

\* ------------------------------------------------------ conversation store
\* createConversation: INSERT INTO conversations ... RETURNING *.
CreateConversation(convs, id, agentId) ==
  [c \in DOMAIN convs \cup {id} |->
     IF c = id THEN [agent_id |-> agentId] ELSE convs[c]]

\* created_at ... DEFAULT NOW(): later than every row there is.
Now(msgs) == IF msgs = <<>> THEN 1 ELSE msgs[Len(msgs)].created_at + 1

\* addMessage: INSERT INTO messages; the table is kept in creation order.
AddMessage(msgs, conversationId, role, content) ==
  Append(msgs, [conversation_id |-> conversationId, role |-> role, content |-> content,
                created_at |-> Now(msgs)])

\* role ... CHECK (role IN ('system', 'user', 'assistant'))
Roles == {"system", "user", "assistant"}

Take(seq, n) == IF Len(seq) <= n THEN seq ELSE SubSeq(seq, 1, n)

Without(rows, i) == [k \in 1..(Len(rows) - 1) |-> IF k < i THEN rows[k] ELSE rows[k + 1]]

\* Faulty variant of OrderByCreatedAt: ORDER BY created_at DESC.
RECURSIVE OrderByCreatedAtDesc(_)
OrderByCreatedAtDesc(rows) ==
  IF rows = <<>> THEN <<>>
  ELSE LET i == CHOOSE i \in DOMAIN rows :
                  \A j \in DOMAIN rows : rows[i].created_at >= rows[j].created_at
       IN <<rows[i]>> \o OrderByCreatedAtDesc(Without(rows, i))

\* ORDER BY created_at ASC.
RECURSIVE OrderByCreatedAt(_)
OrderByCreatedAt(rows) ==
  IF rows = <<>> THEN <<>>
  ELSE LET i == CHOOSE i \in DOMAIN rows :
                  \A j \in DOMAIN rows : rows[i].created_at <= rows[j].created_at
       IN <<rows[i]>> \o OrderByCreatedAt(Without(rows, i))

\* getMessages: ... WHERE conversation_id = $1 ORDER BY created_at ASC LIMIT $2.
GetMessages(msgs, conversationId, limit) ==
  Take(OrderByCreatedAt(SelectSeq(msgs, LAMBDA m : m.conversation_id = conversationId)),
       limit)

Null == [found |-> FALSE, agent_id |-> "", messages |-> <<>>]

\* getConversation: null, or the row with its messages ORDER BY created_at ASC.
GetConversation(convs, msgs, conversationId) ==
  IF conversationId \notin DOMAIN convs THEN Null
  ELSE [found |-> TRUE, agent_id |-> convs[conversationId].agent_id,
        messages |-> OrderByCreatedAt(
                       SelectSeq(msgs, LAMBDA m : m.conversation_id = conversationId))]

\* Faulty variant of DeleteConversation: the rows of the conversation stay.
DeleteConversationOnly(convs, msgs, conversationId) ==
  [conversations |-> [c \in DOMAIN convs \ {conversationId} |-> convs[c]],
   messages |-> msgs]

\* deleteConversation: DELETE FROM conversations; messages go ON DELETE CASCADE.
DeleteConversation(convs, msgs, conversationId) ==
  [conversations |-> [c \in DOMAIN convs \ {conversationId} |-> convs[c]],
   messages |-> SelectSeq(msgs, LAMBDA m : m.conversation_id # conversationId)]

HistoryLimit == 50

\* --------------------------------------------------------- the chat route
AgentDefs ==
  [a \in {"a0", "a1"} |->
     [id |-> a,
      systemInstructions |-> <<"instructions of ", a>>,
      allowedTools |-> IF a = "a0" THEN <<>> ELSE <<"web_search", "memory">>]]

\* Agent ids a request may address; "nobody" is not loaded.
AddressedAgents == {"a0", "a1", "nobody"}

Undefined == [t |-> "undefined", v |-> EmptyString]
Str(s) == [t |-> "string", v |-> s]
Num(s) == [t |-> "number", v |-> s]

\* The message field of a request body: missing, a number, "", blanks only,
\* and a text with blanks around it.
MessageValues == {Undefined, Num(<<"42">>), Str(EmptyString), Str(<<" ", " ">>),
                  Str(<<" ", "hello", " ">>)}

RECURSIVE TrimStart(_)
TrimStart(s) == IF Len(s) > 0 /\ s[1] = " " THEN TrimStart(Tail(s)) ELSE s

RECURSIVE TrimEnd(_)
TrimEnd(s) ==
  IF Len(s) > 0 /\ s[Len(s)] = " " THEN TrimEnd(SubSeq(s, 1, Len(s) - 1)) ELSE s

Trim(s) == TrimEnd(TrimStart(s))

\* Faulty variant of InvalidMessage: the blank check is left out.
InvalidMessageUntrimmed(message) ==
  \/ message.t = "undefined"
  \/ message.t = "string" /\ message.v = EmptyString
  \/ message.t # "string"

\* !message || typeof message !== 'string' || message.trim().length === 0
InvalidMessage(message) ==
  \/ message.t = "undefined"
  \/ message.t = "string" /\ message.v = EmptyString
  \/ message.t # "string"
  \/ Len(Trim(message.v)) = 0

\* github.tools and linear.tools: the function names, in the order of the
\* arrays.
GitHubTools ==
  <<GitHubListRepos, <<"github_", "search_repos">>, <<"github_", "get_file">>,
    <<"github_", "list_files">>, <<"github_", "search_code">>,
    <<"github_", "list_issues">>, <<"github_", "create_issue">>,
    <<"github_", "list_pulls">>, GitHubGetRepo, <<"github_", "list_branches">>,
    <<"github_", "create_or_update_file">>>>
LinearTools ==
  <<LinearListTeams, LinearListProjects, <<"linear_", "list_issues">>,
    <<"linear_", "search_issues">>, <<"linear_", "create_issue">>,
    <<"linear_", "update_issue">>, <<"linear_", "list_states">>>>

\* Faulty variant of GetAvailableTools: either credential brings both tool
\* lists.
GetAvailableToolsEither(githubToken, linearApiKey) ==
  IF Truthy(githubToken) \/ Truthy(linearApiKey) THEN GitHubTools \o LinearTools ELSE <<>>

\* getAvailableTools: the catalog, from the credentials alone.
GetAvailableTools(githubToken, linearApiKey) ==
  (IF Truthy(githubToken) THEN GitHubTools ELSE <<>>)
    \o (IF Truthy(linearApiKey) THEN LinearTools ELSE <<>>)

\* Faulty variant of OrElse: the second value wins when it is not empty.
OrElseSecond(a, b) == IF Truthy(b) THEN b ELSE a

\* a || b || ''
OrElse(a, b) == IF Truthy(a) THEN a ELSE b

ChatMaxIterations == 10

Includes(s, token) == \E i \in DOMAIN s : s[i] = token

\* The status of the catch block of the route.
ErrorStatus(message) == IF Includes(message, "connection") THEN 503 ELSE 500

\* ollama.chat wraps the failure of its post.
ChatError(error) ==
  IF error = ConnectionRefused
    THEN <<"Ollama ", "connection", " error: ">> \o error
    ELSE <<"Ollama chat error (500): ">> \o error

NoConversation == "none"

\* The locals of one request handler, with what it has observably done:
\* chatSent (the message sequences given to ollama.chat / chatStream), dbOps
\* (the store calls made), stored (the rows it inserted into messages),
\* events (the server-sent events written), loopInvoked.
NewRequest ==
  [pc |-> "new", agentId |-> "nobody",
   body |-> [message |-> Undefined, conversationId |-> NoConversation,
             githubToken |-> EmptyString, linearApiKey |-> EmptyString],
   ghToken |-> EmptyString, lnKey |-> EmptyString, convId |-> NoConversation,
   ollamaMessages |-> <<>>, assistantMessage |-> EmptyString,
   status |-> 0, error |-> EmptyString, route |-> "none", events |-> <<>>,
   loopInvoked |-> FALSE, chatSent |-> <<>>, dbOps |-> 0, stored |-> <<>>]

Respond(rq, status) == [rq EXCEPT !.pc = "done", !.status = status]

Fail(rq, error) == [Respond(rq, ErrorStatus(error)) EXCEPT !.error = error]

\* ------------------------------------------------------------------ state
VARIABLES
  run,            \* per request: the locals of its chatWithTools call
  req,            \* per request: the locals of the chat route handler
  agents,         \* the agent registry
  env,            \* process.env.GITHUB_TOKEN / LINEAR_API_KEY
  conversations,  \* table conversations: id -> row
  messages,       \* table messages, in creation order
  scope,          \* what the model runtime may request: call kinds, how many
                  \* calls in all, how many in one response
  invocations,    \* calls of executeFunction looked at on their own
  agent_memory,   \* the rows of table agent_memory
  upserts,        \* the upsert statements the store has executed, in order
  memreq,         \* per request: the locals of the memory route handler
  stream,         \* one chatStream call: the response body and the stream made of it
  health,         \* the health route: its two probes and the reports it has given
  startup         \* a routine of the start of the process: initAgentMemory (and
                  \* then listening), or waitForOllama

vars == <<run, req, agents, env, conversations, messages, scope, invocations,
          agent_memory, upserts, memreq, stream, health, startup>>

server == <<req, agents, env, conversations, messages>>

\* What the routes and the loop leave alone.
memory == <<agent_memory, upserts, memreq>>

aside == <<invocations, memory, stream, health, startup>>

Pending == [settled |-> FALSE]

\* No health request under way, none answered.
NoHealth == [pc |-> "idle", ollamaHealth |-> Pending, dbHealth |-> Pending,
             reports |-> <<>>]

\* No chatStream call yet: nothing received, nothing enqueued.
NoStream ==
  [pc |-> "idle", lines |-> <<>>, rest |-> <<>>, enqueued |-> <<>>,
   closed |-> FALSE, error |-> EmptyString]

\* The process has started and serves requests.
Listening == [pc |-> "listening", boots |-> 1, todo |-> <<>>, initialized |-> 0]

NewMemoryRequest ==
  [pc |-> "new", agentId |-> EmptyString, label |-> EmptyString,
   value |-> EmptyString, status |-> 0]

InitAside ==
  /\ invocations = <<>>
  /\ agent_memory = <<>>
  /\ upserts = <<>>
  /\ memreq = [r \in AllReqs |-> NewMemoryRequest]
  /\ stream = NoStream
  /\ health = NoHealth
  /\ startup = Listening

\* The requests that arrive; the others stay as they are created.
Reqs == scope.requests

ModelResponds(r) ==
  /\ run[r].pc = "awaitModel"
  /\ \E response \in Responses(run[r], scope.kinds, scope.calls) :
       /\ Len(response.message.tool_calls) <= scope.batch
       /\ run' = [run EXCEPT ![r] =
                 OnModelResponse([run[r] EXCEPT !.received = Append(@, response)], response)]
  /\ UNCHANGED <<server, scope, aside>>

ExecutorCompletes(r) ==
  /\ \E i \in DOMAIN run[r].exec, outcome \in NetworkOutcomes :
       /\ run[r].exec[i].status = "inflight"
       /\ run' = [run EXCEPT ![r] = OnExecutorDone(run[r], i, outcome)]
  /\ UNCHANGED <<server, scope, aside>>

InitStore ==
  /\ agents = AgentDefs
  /\ conversations = [c \in {"c1", "c2"} |-> [agent_id |-> IF c = "c1" THEN "a0" ELSE "a1"]]
  /\ messages = AddMessage(AddMessage(<<>>, "c1", "user", <<"earlier">>),
                           "c1", "assistant", <<"reply">>)

\* The message arrays a caller passes: a system prompt and a user turn, the
\* same with a user turn without text, and no message at all.
InputMessages ==
  {<<SystemMessage, UserMessage>>,
   <<SystemMessage, Message("user", EmptyString, NoCalls, NoId)>>,
   <<>>}

\* A caller starts chatWithTools; the server is idle.
InitLoop ==
  /\ \E msgs \in InputMessages, gh \in Credentials, ln \in Credentials, m \in 0..MaxIter :
       run = [r \in AllReqs |-> IF r = "r1" THEN ChatWithTools(msgs, gh, ln, m)
                                 ELSE IdleRun]
  /\ scope = [kinds |-> CallKinds, calls |-> MaxCalls, batch |-> MaxCalls,
              requests |-> {"r1"}, lines |-> 1]
  /\ req = [r \in AllReqs |-> NewRequest]
  /\ env = [GITHUB_TOKEN |-> EmptyString, LINEAR_API_KEY |-> EmptyString]
  /\ InitStore
  /\ InitAside

NextLoop == \E r \in Reqs : ModelResponds(r) \/ ExecutorCompletes(r)

SpecLoop == InitLoop /\ [][NextLoop]_vars

\* Every request to the runtime is answered or fails, and so does every
\* call of an executor: the awaits of the loop do not hang for ever.
SpecLoopFair ==
  /\ SpecLoop
  /\ \A r \in AllReqs : WF_vars(ModelResponds(r)) /\ WF_vars(ExecutorCompletes(r))

\* Two callers start chatWithTools, each with an array of its own, and the
\* two runs go on side by side.
TwoRunsCallKinds ==
  {[name |-> GitHubListRepos, arguments |-> ObjectArgs],
   [name |-> WebSearch, arguments |-> ObjectArgs]}

InitTwoRuns ==
  /\ \E gh \in Credentials, m \in 1..MaxIter :
       run = [r \in AllReqs |->
                ChatWithTools(IF r = "r1" THEN <<SystemMessage, UserMessage>>
                              ELSE <<SystemMessage, Message("user", EmptyString, NoCalls, NoId)>>,
                              gh, EmptyString, m)]
  /\ scope = [kinds |-> TwoRunsCallKinds, calls |-> MaxCalls, batch |-> 1,
              requests |-> AllReqs, lines |-> 1]
  /\ req = [r \in AllReqs |-> NewRequest]
  /\ env = [GITHUB_TOKEN |-> EmptyString, LINEAR_API_KEY |-> EmptyString]
  /\ InitStore
  /\ InitAside

SpecTwoRuns == InitTwoRuns /\ [][NextLoop]_vars

\* ----------------------------------------------- POST /api/agents/:id/chat
ConversationIds == {NoConversation, "c1", "c2", "c9"}

FreshIds == {"c3", "c4"}

Bodies ==
  [message : MessageValues, conversationId : ConversationIds,
   githubToken : Credentials, linearApiKey : Credentials]

\* The handler up to its first await: agent lookup, validation, credentials.
ChatReceive(r) ==
  /\ req[r].pc = "new"
  /\ \E a \in AddressedAgents, body \in Bodies :
       LET rq == [req[r] EXCEPT !.agentId = a, !.body = body, !.route = "chat"]
       IN req' = [req EXCEPT ![r] =
            IF a \notin DOMAIN agents THEN Respond(rq, 404)
            ELSE IF InvalidMessage(body.message) THEN Respond(rq, 400)
            ELSE [rq EXCEPT
                    !.ghToken = OrElse(body.githubToken, env.GITHUB_TOKEN),
                    !.lnKey = OrElse(body.linearApiKey, env.LINEAR_API_KEY),
                    !.convId = body.conversationId,
                    !.pc = IF body.conversationId # NoConversation
                             THEN "getConversation" ELSE "createConversation"]]
  /\ UNCHANGED <<run, agents, env, conversations, messages, scope, aside>>

\* Faulty variant of ChatGetConversation: the owner of the row is not looked at.
ChatGetConversationAnyOwner(r) ==
  /\ req[r].pc = "getConversation"
  /\ LET rq == [req[r] EXCEPT !.dbOps = @ + 1]
     IN req' = [req EXCEPT ![r] =
          IF rq.convId \notin DOMAIN conversations THEN Respond(rq, 404)
          ELSE [rq EXCEPT !.pc = "addUser"]]
  /\ UNCHANGED <<run, agents, env, conversations, messages, scope, aside>>

\* Faulty variant of ChatGetConversation: a conversation that is not there is
\* created under the id asked for.
ChatGetConversationOrCreate(r) ==
  /\ req[r].pc = "getConversation"
  /\ LET rq == [req[r] EXCEPT !.dbOps = @ + 1]
     IN IF rq.convId \notin DOMAIN conversations
          THEN /\ conversations' = CreateConversation(conversations, rq.convId, rq.agentId)
               /\ req' = [req EXCEPT ![r] = [rq EXCEPT !.pc = "addUser"]]
          ELSE /\ UNCHANGED conversations
               /\ req' = [req EXCEPT ![r] =
                    IF conversations[rq.convId].agent_id # rq.agentId THEN Respond(rq, 400)
                    ELSE [rq EXCEPT !.pc = "addUser"]]
  /\ UNCHANGED <<run, agents, env, messages, scope, aside>>

\* db.getConversation and the two checks on its row.
ChatGetConversation(r) ==
  /\ req[r].pc = "getConversation"
  /\ LET rq == [req[r] EXCEPT !.dbOps = @ + 1]
     IN req' = [req EXCEPT ![r] =
          IF rq.convId \notin DOMAIN conversations THEN Respond(rq, 404)
          ELSE IF conversations[rq.convId].agent_id # rq.agentId THEN Respond(rq, 400)
          ELSE [rq EXCEPT !.pc = "addUser"]]
  /\ UNCHANGED <<run, agents, env, conversations, messages, scope, aside>>

\* db.createConversation.
ChatCreateConversation(r) ==
  /\ req[r].pc = "createConversation"
  /\ FreshIds \ DOMAIN conversations # {}
  /\ LET id == CHOOSE c \in FreshIds \ DOMAIN conversations : TRUE
     IN /\ conversations' = CreateConversation(conversations, id, req[r].agentId)
        /\ req' = [req EXCEPT ![r].convId = id, ![r].dbOps = @ + 1, ![r].pc = "addUser"]
  /\ UNCHANGED <<run, agents, env, messages, scope, aside>>

ForeignKeyError == <<"insert or update on table \"messages\" violates foreign key constraint">>

\* db.addMessage(convId, 'user', message.trim()).
ChatAddUserMessage(r) ==
  /\ req[r].pc = "addUser"
  /\ IF req[r].convId \in DOMAIN conversations
       THEN /\ messages' = AddMessage(messages, req[r].convId, "user",
                                      Trim(req[r].body.message.v))
            /\ req' = [req EXCEPT ![r].dbOps = @ + 1,
                                  ![r].stored = Append(@, messages'[Len(messages')]),
                                  ![r].pc = "getMessages"]
       ELSE /\ req' = [req EXCEPT ![r] = Fail([req[r] EXCEPT !.dbOps = @ + 1], ForeignKeyError)]
            /\ UNCHANGED messages
  /\ UNCHANGED <<run, agents, env, conversations, scope, aside>>

\* Faulty variant of ChatGetMessages: the rows other requests have stored
\* in the conversation are left out of the history.
ChatGetMessagesOwnRows(r) ==
  /\ req[r].pc = "getMessages"
  /\ LET rq == req[r]
         mine(m) == \A q \in AllReqs \ {r} : \A k \in DOMAIN req[q].stored : req[q].stored[k] # m
         history == GetMessages(SelectSeq(messages, mine), rq.convId, HistoryLimit)
         ollamaMessages ==
           <<Message("system", agents[rq.agentId].systemInstructions, NoCalls, NoId)>>
             \o [i \in DOMAIN history |->
                   Message(history[i].role, history[i].content, NoCalls, NoId)]
         availableTools == GetAvailableTools(rq.ghToken, rq.lnKey)
     IN IF Len(availableTools) > 0
          THEN /\ run' = [run EXCEPT ![r] =
                    ChatWithTools(ollamaMessages, rq.ghToken, rq.lnKey, ChatMaxIterations)]
               /\ req' = [req EXCEPT ![r].dbOps = @ + 1,
                                     ![r].ollamaMessages = ollamaMessages,
                                     ![r].loopInvoked = TRUE,
                                     ![r].pc = "tools"]
          ELSE /\ req' = [req EXCEPT ![r].dbOps = @ + 1,
                                     ![r].ollamaMessages = ollamaMessages,
                                     ![r].chatSent = Append(@, ollamaMessages),
                                     ![r].pc = "chat"]
               /\ UNCHANGED run
  /\ UNCHANGED <<agents, env, conversations, messages, scope, aside>>

\* db.getMessages, the message array, the catalog, and the call made with
\* it: chatWithTools when the catalog is not empty, else ollama.chat.
ChatGetMessages(r) ==
  /\ req[r].pc = "getMessages"
  /\ LET rq == req[r]
         history == GetMessages(messages, rq.convId, HistoryLimit)
         ollamaMessages ==
           <<Message("system", agents[rq.agentId].systemInstructions, NoCalls, NoId)>>
             \o [i \in DOMAIN history |->
                   Message(history[i].role, history[i].content, NoCalls, NoId)]
         availableTools == GetAvailableTools(rq.ghToken, rq.lnKey)
     IN IF Len(availableTools) > 0
          THEN /\ run' = [run EXCEPT ![r] =
                    ChatWithTools(ollamaMessages, rq.ghToken, rq.lnKey, ChatMaxIterations)]
               /\ req' = [req EXCEPT ![r].dbOps = @ + 1,
                                     ![r].ollamaMessages = ollamaMessages,
                                     ![r].loopInvoked = TRUE,
                                     ![r].pc = "tools"]
          ELSE /\ req' = [req EXCEPT ![r].dbOps = @ + 1,
                                     ![r].ollamaMessages = ollamaMessages,
                                     ![r].chatSent = Append(@, ollamaMessages),
                                     ![r].pc = "chat"]
               /\ UNCHANGED run
  /\ UNCHANGED <<agents, env, conversations, messages, scope, aside>>

\* Faulty variant of ChatModelResponds: a failed model call is taken for an
\* empty answer.
ChatModelRespondsSwallowing(r) ==
  /\ req[r].pc = "chat"
  /\ \E response \in PlainResponses :
       req' = [req EXCEPT ![r] =
         [req[r] EXCEPT !.assistantMessage = IF response.ok THEN response.message.content
                                             ELSE EmptyString,
                        !.error = IF response.ok THEN @ ELSE ChatError(response.error),
                        !.pc = "addAssistant"]]
  /\ UNCHANGED <<run, agents, env, conversations, messages, scope, aside>>

\* ollama.chat returns the response data or throws a wrapped error.
ChatModelResponds(r) ==
  /\ req[r].pc = "chat"
  /\ \E response \in PlainResponses :
       req' = [req EXCEPT ![r] =
         IF response.ok
           THEN [req[r] EXCEPT !.assistantMessage = response.message.content,
                               !.pc = "addAssistant"]
           ELSE Fail(req[r], ChatError(response.error))]
  /\ UNCHANGED <<run, agents, env, conversations, messages, scope, aside>>

\* Faulty variant of ChatToolsDone: a result with maxIterationsReached is
\* answered as a failure.
ChatToolsDoneStrict(r) ==
  /\ req[r].pc = "tools"
  /\ run[r].pc \in {"returned", "raised"}
  /\ req' = [req EXCEPT ![r] =
       IF run[r].pc = "returned" /\ ~run[r].result.maxIterationsReached
         THEN [req[r] EXCEPT !.assistantMessage = run[r].result.message,
                             !.pc = "addAssistant"]
         ELSE Fail(req[r], IF run[r].pc = "raised" THEN run[r].error
                           ELSE DefaultFallbackText)]
  /\ UNCHANGED <<run, agents, env, conversations, messages, scope, aside>>

\* chatWithTools has returned or thrown.
ChatToolsDone(r) ==
  /\ req[r].pc = "tools"
  /\ run[r].pc \in {"returned", "raised"}
  /\ req' = [req EXCEPT ![r] =
       IF run[r].pc = "returned"
         THEN [req[r] EXCEPT !.assistantMessage = run[r].result.message,
                             !.pc = "addAssistant"]
         ELSE Fail(req[r], run[r].error)]
  /\ UNCHANGED <<run, agents, env, conversations, messages, scope, aside>>

\* Faulty variant of ChatAddAssistantMessage: the messages the loop produced
\* are stored before the final answer.
ChatAddAssistantMessageWithLoop(r) ==
  /\ req[r].pc = "addAssistant"
  /\ IF req[r].convId \in DOMAIN conversations
       THEN LET st == run[r]
                loop == IF req[r].loopInvoked
                          THEN SubSeq(st.currentMessages, Len(st.messages) + 1,
                                      Len(st.currentMessages))
                          ELSE <<>>
                rows == [i \in DOMAIN loop |->
                           [conversation_id |-> req[r].convId, role |-> loop[i].role,
                            content |-> loop[i].content, created_at |-> Now(messages) + i - 1]]
            IN /\ messages' = AddMessage(messages \o rows, req[r].convId, "assistant",
                                         req[r].assistantMessage)
               /\ req' = [req EXCEPT ![r] =
                    Respond([req[r] EXCEPT !.dbOps = @ + 1,
                                           !.stored = @ \o rows
                                              \o <<messages'[Len(messages')]>>], 200)]
       ELSE /\ req' = [req EXCEPT ![r] = Fail([req[r] EXCEPT !.dbOps = @ + 1], ForeignKeyError)]
            /\ UNCHANGED messages
  /\ UNCHANGED <<run, agents, env, conversations, scope, aside>>

\* db.addMessage(convId, 'assistant', assistantMessage) and res.json.
ChatAddAssistantMessage(r) ==
  /\ req[r].pc = "addAssistant"
  /\ IF req[r].convId \in DOMAIN conversations
       THEN /\ messages' = AddMessage(messages, req[r].convId, "assistant",
                                      req[r].assistantMessage)
            /\ req' = [req EXCEPT ![r] =
                 Respond([req[r] EXCEPT !.dbOps = @ + 1,
                                        !.stored = Append(@, messages'[Len(messages')])], 200)]
       ELSE /\ req' = [req EXCEPT ![r] = Fail([req[r] EXCEPT !.dbOps = @ + 1], ForeignKeyError)]
            /\ UNCHANGED messages
  /\ UNCHANGED <<run, agents, env, conversations, scope, aside>>

\* ---------------------------------------- POST /api/agents/:id/chat/stream
SSEError(error, details) == [error |-> error, details |-> details]

\* res.write of one server-sent event, then res.end; the status line is 200.
WriteAndEnd(rq, event) == [Respond(rq, 200) EXCEPT !.events = Append(@, event)]

ConversationNotFound == <<"Conversation ", "nicht gefunden">>
ConversationOfOtherAgent == <<"Conversation ", "gehoert zu Agent">>
StreamingFailed == <<"Streaming-Anfrage fehlgeschlagen">>

\* ------------------------------------------------------------ chatStream
MaxLines == 2

\* The message.content of a line of the runtime's response; "" on the line
\* that only reports the end.
Contents == {"a", "b", ""}

\* A line of newline-delimited JSON, as the pieces a network chunk can end
\* between, and the body made of the lines.
JsonLine(content) == <<"{", content, "}">>

RECURSIVE Body(_)
Body(lines) ==
  IF lines = <<>> THEN <<>>
  ELSE JsonLine(Head(lines)) \o <<"\n">> \o Body(Tail(lines))

\* chunk.split('\n').filter(line => line.trim())
RECURSIVE SplitLines(_, _)
SplitLines(chunk, line) ==
  IF chunk = <<>> THEN IF line = <<>> THEN <<>> ELSE <<line>>
  ELSE IF Head(chunk) = "\n"
         THEN (IF line = <<>> THEN <<>> ELSE <<line>>) \o SplitLines(Tail(chunk), <<>>)
         ELSE SplitLines(Tail(chunk), Append(line, Head(chunk)))

\* JSON.parse(line) and json.message?.content: a piece of a line is not
\* JSON, or is JSON without a message.
ParsesToContent(line) == Len(line) = 3 /\ line[1] = "{" /\ line[3] = "}"

\* The for loop over the lines of one chunk: what it enqueues.
RECURSIVE Enqueued(_)
Enqueued(lines) ==
  IF lines = <<>> THEN <<>>
  ELSE (IF ParsesToContent(Head(lines)) /\ Head(lines)[2] # ""
          THEN <<Head(lines)[2]>> ELSE <<>>) \o Enqueued(Tail(lines))

StreamError(error) == <<"Ollama stream ", "connection", " error: ">> \o error

\* chatStream(model, messages, options) up to its fetch.
ChatStreamCall ==
  /\ stream.pc = "idle"
  /\ stream' = [NoStream EXCEPT !.pc = "fetch"]
  /\ UNCHANGED <<run, server, scope, invocations, memory, health, startup>>

\* fetch: it fails, or the response is not ok, or the body starts to arrive.
ChatStreamFetch ==
  /\ stream.pc = "fetch"
  /\ \/ \E error \in {ConnectionRefused, <<"Ollama stream error (500): ">>} :
          stream' = [stream EXCEPT !.pc = "thrown", !.error = StreamError(error)]
     \/ \E n \in 1..scope.lines : \E lines \in [1..n -> Contents] :
          stream' = [stream EXCEPT !.pc = "read", !.lines = lines, !.rest = Body(lines)]
  /\ UNCHANGED <<run, server, scope, invocations, memory, health, startup>>

\* reader.read() gives the next network chunk, of any length.
ChatStreamRead ==
  /\ stream.pc = "read"
  /\ stream.rest # <<>>
  /\ \E n \in 1..Len(stream.rest) :
       LET chunk == SubSeq(stream.rest, 1, n)
       IN stream' = [stream EXCEPT
            !.rest = SubSeq(stream.rest, n + 1, Len(stream.rest)),
            !.enqueued = @ \o Enqueued(SplitLines(chunk, <<>>))]
  /\ UNCHANGED <<run, server, scope, invocations, memory, health, startup>>

\* reader.read() reports done: streamController.close().
ChatStreamDone ==
  /\ stream.pc = "read"
  /\ stream.rest = <<>>
  /\ stream' = [stream EXCEPT !.pc = "closed", !.closed = TRUE]
  /\ UNCHANGED <<run, server, scope, invocations, memory, health, startup>>

\* The catch block of the stream route.
StreamFail(rq, error) ==
  [WriteAndEnd(rq, SSEError(StreamingFailed, error)) EXCEPT !.error = error]

\* for await (... of <a Promise>): a Promise is not async iterable.  The
\* call of chatStream has been made by then, and its fetch goes on.
NotAsyncIterable ==
  <<"ollama.chatStream(...) is not a function or its return value is not async iterable">>

\* The handler up to its first await: agent lookup, validation; the body's
\* credentials are not read.
StreamReceive(r) ==
  /\ req[r].pc = "new"
  /\ \E a \in AddressedAgents, body \in Bodies :
       /\ body.githubToken = EmptyString
       /\ body.linearApiKey = EmptyString
       /\ LET rq == [req[r] EXCEPT !.agentId = a, !.body = body, !.route = "stream"]
          IN req' = [req EXCEPT ![r] =
               IF a \notin DOMAIN agents THEN Respond(rq, 404)
               ELSE IF InvalidMessage(body.message) THEN Respond(rq, 400)
               ELSE [rq EXCEPT
                       !.convId = body.conversationId,
                       !.pc = IF body.conversationId # NoConversation
                                THEN "streamGetConversation"
                                ELSE "streamCreateConversation"]]
  /\ UNCHANGED <<run, agents, env, conversations, messages, scope, aside>>

\* db.getConversation and the two checks on its row, answered as events.
StreamGetConversation(r) ==
  /\ req[r].pc = "streamGetConversation"
  /\ LET rq == [req[r] EXCEPT !.dbOps = @ + 1]
     IN req' = [req EXCEPT ![r] =
          IF rq.convId \notin DOMAIN conversations
            THEN WriteAndEnd(rq, SSEError(ConversationNotFound, EmptyString))
          ELSE IF conversations[rq.convId].agent_id # rq.agentId
            THEN WriteAndEnd(rq, SSEError(ConversationOfOtherAgent, EmptyString))
          ELSE [rq EXCEPT !.pc = "streamAddUser"]]
  /\ UNCHANGED <<run, agents, env, conversations, messages, scope, aside>>

StreamCreateConversation(r) ==
  /\ req[r].pc = "streamCreateConversation"
  /\ FreshIds \ DOMAIN conversations # {}
  /\ LET id == CHOOSE c \in FreshIds \ DOMAIN conversations : TRUE
     IN /\ conversations' = CreateConversation(conversations, id, req[r].agentId)
        /\ req' = [req EXCEPT ![r].convId = id, ![r].dbOps = @ + 1,
                              ![r].pc = "streamAddUser"]
  /\ UNCHANGED <<run, agents, env, messages, scope, aside>>

StreamAddUserMessage(r) ==
  /\ req[r].pc = "streamAddUser"
  /\ IF req[r].convId \in DOMAIN conversations
       THEN /\ messages' = AddMessage(messages, req[r].convId, "user",
                                      Trim(req[r].body.message.v))
            /\ req' = [req EXCEPT ![r].dbOps = @ + 1,
                                  ![r].stored = Append(@, messages'[Len(messages')]),
                                  ![r].pc = "streamGetMessages"]
       ELSE /\ req' = [req EXCEPT ![r] =
                 StreamFail([req[r] EXCEPT !.dbOps = @ + 1], ForeignKeyError)]
            /\ UNCHANGED messages
  /\ UNCHANGED <<run, agents, env, conversations, scope, aside>>

\* db.getMessages, the message array, and the call of ollama.chatStream: it
\* posts the request and returns a Promise, which for await cannot iterate,
\* so the catch block answers.
StreamGetMessages(r) ==
  /\ req[r].pc = "streamGetMessages"
  /\ LET rq == req[r]
         history == GetMessages(messages, rq.convId, HistoryLimit)
         ollamaMessages ==
           <<Message("system", agents[rq.agentId].systemInstructions, NoCalls, NoId)>>
             \o [i \in DOMAIN history |->
                   Message(history[i].role, history[i].content, NoCalls, NoId)]
     IN req' = [req EXCEPT ![r] =
          StreamFail([rq EXCEPT !.dbOps = @ + 1,
                                !.ollamaMessages = ollamaMessages,
                                !.chatSent = Append(@, ollamaMessages)],
                     NotAsyncIterable)]
  /\ stream' = [NoStream EXCEPT !.pc = "fetch"]
  /\ UNCHANGED <<run, agents, env, conversations, messages, scope, invocations, memory,
                 health, startup>>

\* Call kinds the runtime uses while serving chat requests.
ChatCallKinds ==
  {[name |-> GitHubListRepos, arguments |-> ObjectArgs],
   [name |-> LinearListTeams, arguments |-> JsonStringArgs],
   [name |-> WebSearch, arguments |-> ObjectArgs],
   [name |-> GitHubListRepos, arguments |-> AbsentArgs]}

Init ==
  /\ run = [r \in AllReqs |-> IdleRun]
  /\ req = [r \in AllReqs |-> NewRequest]
  /\ scope = [kinds |-> ChatCallKinds, calls |-> MaxChatCalls, batch |-> MaxChatCalls,
              requests |-> {"r1"}, lines |-> 1]
  /\ \E gh \in Credentials, ln \in Credentials :
       env = [GITHUB_TOKEN |-> gh, LINEAR_API_KEY |-> ln]
  /\ InitStore
  /\ InitAside

Next ==
  \E r \in Reqs :
    \/ ChatReceive(r)
    \/ ChatGetConversation(r)
    \/ ChatCreateConversation(r)
    \/ ChatAddUserMessage(r)
    \/ ChatGetMessages(r)
    \/ ChatModelResponds(r)
    \/ ModelResponds(r)
    \/ ExecutorCompletes(r)
    \/ ChatToolsDone(r)
    \/ ChatAddAssistantMessage(r)
    \/ StreamReceive(r)
    \/ StreamGetConversation(r)
    \/ StreamCreateConversation(r)
    \/ StreamAddUserMessage(r)
    \/ StreamGetMessages(r)
    \/ ChatStreamFetch
    \/ ChatStreamRead
    \/ ChatStreamDone

Spec == Init /\ [][Next]_vars

\* The server with a model runtime that goes on requesting tools, one call a
\* response, for as many responses as the chat route allows iterations.
CeilingCallKinds ==
  {[name |-> GitHubListRepos, arguments |-> ObjectArgs],
   [name |-> GitHubListRepos, arguments |-> AbsentArgs]}

InitCeiling ==
  /\ run = [r \in AllReqs |-> IdleRun]
  /\ req = [r \in AllReqs |-> NewRequest]
  /\ scope = [kinds |-> CeilingCallKinds, calls |-> ChatMaxIterations, batch |-> 1,
              requests |-> {"r1"}, lines |-> 1]
  /\ env = [GITHUB_TOKEN |-> EmptyString, LINEAR_API_KEY |-> EmptyString]
  /\ InitStore
  /\ InitAside

SpecCeiling == InitCeiling /\ [][Next]_vars

\* ------------------------------------------- the executors on their own
\* The names that reach each executor: catalogued functions without and with
\* arguments, and a name of the routed prefix that is not a function.
GitHubNames == {GitHubListRepos, GitHubGetRepo, GitHubBogus}
LinearNames == {LinearListTeams, LinearListProjects, LinearBogus}

GitHubExecute ==
  /\ Len(invocations) < MaxInvocations
  /\ \E name \in GitHubNames, args \in ExecutorArgs, outcome \in NetworkOutcomes :
       invocations' = Append(invocations,
         [executor |-> "github", name |-> name, args |-> args, outcome |-> outcome,
          result |-> GitHubExecuteFunction(name, args, <<"secret">>, outcome)])
  /\ UNCHANGED <<run, server, scope, memory, stream, health, startup>>

LinearExecute ==
  /\ Len(invocations) < MaxInvocations
  /\ \E name \in LinearNames, args \in ExecutorArgs, outcome \in NetworkOutcomes :
       invocations' = Append(invocations,
         [executor |-> "linear", name |-> name, args |-> args, outcome |-> outcome,
          result |-> LinearExecuteFunction(name, args, <<"secret">>, outcome)])
  /\ UNCHANGED <<run, server, scope, memory, stream, health, startup>>

InitExecutors ==
  /\ run = [r \in AllReqs |-> IdleRun]
  /\ req = [r \in AllReqs |-> NewRequest]
  /\ scope = [kinds |-> {}, calls |-> 0, batch |-> 0,
              requests |-> {"r1"}, lines |-> 1]
  /\ env = [GITHUB_TOKEN |-> EmptyString, LINEAR_API_KEY |-> EmptyString]
  /\ InitStore
  /\ InitAside

NextExecutors == GitHubExecute \/ LinearExecute

SpecExecutors == InitExecutors /\ [][NextExecutors]_vars

\* ------------------------------------------------- the store on its own
\* The store functions called in any order.  A conversation id is a fresh
\* uuid, so the conversations deleted here are those there from the start.
StoreCreateConversation ==
  /\ FreshIds \ DOMAIN conversations # {}
  /\ \E a \in DOMAIN AgentDefs :
       LET id == CHOOSE c \in FreshIds \ DOMAIN conversations : TRUE
       IN conversations' = CreateConversation(conversations, id, a)
  /\ UNCHANGED <<run, req, agents, env, messages, scope, aside>>

\* addMessage: the insert fails on an unknown conversation_id (REFERENCES)
\* and on a role outside the CHECK list.
StoreAddMessage ==
  /\ Len(messages) < MaxMessages
  /\ \E c \in {"c1", "c2", "c3", "c9"}, role \in Roles \cup {"tool"} :
       IF c \in DOMAIN conversations /\ role \in Roles
         THEN messages' = AddMessage(messages, c, role, <<"text">>)
         ELSE UNCHANGED messages
  /\ UNCHANGED <<run, req, agents, env, conversations, scope, aside>>

StoreDeleteConversation ==
  /\ \E c \in {"c1", "c2", "c9"} :
       LET deleted == DeleteConversation(conversations, messages, c)
       IN /\ conversations' = deleted.conversations
          /\ messages' = deleted.messages
  /\ UNCHANGED <<run, req, agents, env, scope, aside>>

InitStoreAlone ==
  /\ run = [r \in AllReqs |-> IdleRun]
  /\ req = [r \in AllReqs |-> NewRequest]
  /\ scope = [kinds |-> {}, calls |-> 0, batch |-> 0,
              requests |-> {"r1"}, lines |-> 1]
  /\ env = [GITHUB_TOKEN |-> EmptyString, LINEAR_API_KEY |-> EmptyString]
  /\ InitStore
  /\ InitAside

NextStore == StoreCreateConversation \/ StoreAddMessage \/ StoreDeleteConversation

SpecStore == InitStoreAlone /\ [][NextStore]_vars

\* ------------------------------------- deletions alongside chat requests
\* DELETE /api/conversations/:conversationId, for any id a client may send
\* and at any point of a chat request.
ConversationDelete ==
  /\ \E c \in (ConversationIds \ {NoConversation}) \cup FreshIds :
       LET deleted == DeleteConversation(conversations, messages, c)
       IN /\ conversations' = deleted.conversations
          /\ messages' = deleted.messages
  /\ UNCHANGED <<run, req, agents, env, scope, aside>>

NextDeletion == Next \/ ConversationDelete

SpecDeletion == Init /\ [][NextDeletion]_vars

\* ------------------------------------------------------ the agent memory
MaxUpserts == 3

\* Faulty variant of UpsertAgentMemory: the row is inserted whatever is there.
InsertAgentMemory(rows, agentId, label, value, now) ==
  Append(rows, [agent_id |-> agentId, label |-> label, value |-> value,
                updated_at |-> now])

\* upsertAgentMemory: INSERT ... ON CONFLICT (agent_id, label) DO UPDATE SET
\* value = $3, updated_at = NOW(), one statement.
UpsertAgentMemory(rows, agentId, label, value, now) ==
  IF \E i \in DOMAIN rows : rows[i].agent_id = agentId /\ rows[i].label = label
    THEN [i \in DOMAIN rows |->
            IF rows[i].agent_id = agentId /\ rows[i].label = label
              THEN [rows[i] EXCEPT !.value = value, !.updated_at = now]
              ELSE rows[i]]
    ELSE Append(rows, [agent_id |-> agentId, label |-> label, value |-> value,
                       updated_at |-> now])

\* The label and value fields of a request body.
LabelValues == {Undefined, Num(<<"7">>), Str(EmptyString), Str(<<"persona">>),
                Str(<<"notes">>)}

ValueValues == {Undefined, Str(EmptyString), Str(<<"v1">>), Str(<<"v2">>)}

\* POST /api/agents/:id/memory up to its await: agent lookup and validation.
MemoryReceive(r) ==
  /\ memreq[r].pc \in {"new", "done"}
  /\ Len(upserts) + Cardinality({q \in AllReqs : memreq[q].pc = "upsert"}) < MaxUpserts
  /\ \E a \in AddressedAgents, label \in LabelValues, value \in ValueValues :
       memreq' = [memreq EXCEPT ![r] =
         IF a \notin DOMAIN agents
           THEN [NewMemoryRequest EXCEPT !.pc = "done", !.status = 404]
         ELSE IF ~Truthy(label.v) \/ label.t # "string"
           THEN [NewMemoryRequest EXCEPT !.pc = "done", !.status = 400]
         ELSE IF ~Truthy(value.v) \/ value.t # "string"
           THEN [NewMemoryRequest EXCEPT !.pc = "done", !.status = 400]
         ELSE [NewMemoryRequest EXCEPT !.pc = "upsert", !.agentId = agents[a].id,
                                       !.label = label.v, !.value = value.v]]
  /\ UNCHANGED <<run, server, scope, invocations, agent_memory, upserts, stream, health, startup>>

\* db.upsertAgentMemory(agent.id, label, value) and the response.
MemoryUpsert(r) ==
  /\ memreq[r].pc = "upsert"
  /\ agent_memory' = UpsertAgentMemory(agent_memory, memreq[r].agentId, memreq[r].label,
                                       memreq[r].value, Len(upserts) + 1)
  /\ upserts' = Append(upserts, [agent_id |-> memreq[r].agentId,
                                 label |-> memreq[r].label, value |-> memreq[r].value])
  /\ memreq' = [memreq EXCEPT ![r].pc = "done", ![r].status = 200]
  /\ UNCHANGED <<run, server, scope, invocations, stream, health, startup>>

InitMemory ==
  /\ run = [r \in AllReqs |-> IdleRun]
  /\ req = [r \in AllReqs |-> NewRequest]
  /\ scope = [kinds |-> {}, calls |-> 0, batch |-> 0, requests |-> AllReqs, lines |-> 1]
  /\ env = [GITHUB_TOKEN |-> EmptyString, LINEAR_API_KEY |-> EmptyString]
  /\ InitStore
  /\ InitAside

NextMemory == \E r \in Reqs : MemoryReceive(r) \/ MemoryUpsert(r)

SpecMemory == InitMemory /\ [][NextMemory]_vars

\* ------------------------------------------------- chatStream on its own
InitChatStream ==
  /\ run = [r \in AllReqs |-> IdleRun]
  /\ req = [r \in AllReqs |-> NewRequest]
  /\ scope = [kinds |-> {}, calls |-> 0, batch |-> 0, requests |-> {"r1"},
              lines |-> MaxLines]
  /\ env = [GITHUB_TOKEN |-> EmptyString, LINEAR_API_KEY |-> EmptyString]
  /\ InitStore
  /\ InitAside

NextChatStream ==
  ChatStreamCall \/ ChatStreamFetch \/ ChatStreamRead \/ ChatStreamDone

SpecChatStream == InitChatStream /\ [][NextChatStream]_vars

\* --------------------------------------------------------- GET /api/health
MaxReports == 3

DEFAULT_MODEL == "glm4"

\* What GET /api/tags gives: no answer, an error status, or a model list.
TagsOutcomes ==
  {[ok |-> FALSE, error |-> ConnectionRefused, models |-> <<>>],
   [ok |-> FALSE, error |-> BadStatus, models |-> <<>>],
   [ok |-> TRUE, error |-> EmptyString, models |-> <<>>],
   [ok |-> TRUE, error |-> EmptyString, models |-> <<"llama3", DEFAULT_MODEL>>]}

\* ollama.healthCheck: listModels and the report on it; a failure is caught.
OllamaHealthCheck(tags) ==
  IF tags.ok
    THEN [settled |-> TRUE, connected |-> TRUE, models |-> Len(tags.models),
          hasGlm4 |-> \E i \in DOMAIN tags.models : tags.models[i] = DEFAULT_MODEL,
          error |-> EmptyString]
    ELSE [settled |-> TRUE, connected |-> FALSE, models |-> 0, hasGlm4 |-> FALSE,
          error |-> <<"Ollama listModels error: ">> \o tags.error]

\* db.healthCheck: SELECT NOW(); a failure is caught.
DbHealthCheck(ok) ==
  IF ok THEN [settled |-> TRUE, connected |-> TRUE, error |-> EmptyString]
  ELSE [settled |-> TRUE, connected |-> FALSE, error |-> ConnectionRefused]

\* Faulty variant of Healthy: one collaborator is enough.
HealthyEither(ollamaHealth, dbHealth) == ollamaHealth.connected \/ dbHealth.connected

Healthy(ollamaHealth, dbHealth) == ollamaHealth.connected /\ dbHealth.connected

\* The handler up to its await: both probes are started.
HealthReceive ==
  /\ health.pc \in {"idle", "done"}
  /\ Len(health.reports) < MaxReports
  /\ health' = [health EXCEPT !.pc = "probing", !.ollamaHealth = Pending,
                              !.dbHealth = Pending]
  /\ UNCHANGED <<run, server, scope, invocations, memory, stream, startup>>

HealthOllamaDone ==
  /\ health.pc = "probing"
  /\ ~health.ollamaHealth.settled
  /\ \E tags \in TagsOutcomes :
       health' = [health EXCEPT !.ollamaHealth = OllamaHealthCheck(tags)]
  /\ UNCHANGED <<run, server, scope, invocations, memory, stream, startup>>

HealthDbDone ==
  /\ health.pc = "probing"
  /\ ~health.dbHealth.settled
  /\ \E ok \in BOOLEAN : health' = [health EXCEPT !.dbHealth = DbHealthCheck(ok)]
  /\ UNCHANGED <<run, server, scope, invocations, memory, stream, startup>>

\* Promise.all is fulfilled: the report.
HealthRespond ==
  /\ health.pc = "probing"
  /\ health.ollamaHealth.settled
  /\ health.dbHealth.settled
  /\ LET healthy == Healthy(health.ollamaHealth, health.dbHealth)
     IN health' = [health EXCEPT
          !.pc = "done",
          !.reports = Append(@, [code |-> IF healthy THEN 200 ELSE 503,
                                 status |-> IF healthy THEN "healthy" ELSE "degraded",
                                 loaded |-> Cardinality(DOMAIN agents),
                                 ollama |-> health.ollamaHealth,
                                 database |-> health.dbHealth])]
  /\ UNCHANGED <<run, server, scope, invocations, memory, stream, startup>>

InitHealth ==
  /\ run = [r \in AllReqs |-> IdleRun]
  /\ req = [r \in AllReqs |-> NewRequest]
  /\ scope = [kinds |-> {}, calls |-> 0, batch |-> 0, requests |-> {"r1"}, lines |-> 1]
  /\ env = [GITHUB_TOKEN |-> EmptyString, LINEAR_API_KEY |-> EmptyString]
  /\ InitStore
  /\ InitAside

NextHealth == HealthReceive \/ HealthOllamaDone \/ HealthDbDone \/ HealthRespond

SpecHealth == InitHealth /\ [][NextHealth]_vars

\* -------------------------------------------------------- the other routes
SettingValues == {Undefined, Str(EmptyString), Str(<<"secret">>)}

\* Faulty variant of SettingsPost: the tools of the agents are reset as well.
SettingsPostResettingAgents ==
  /\ \E githubToken, linearApiKey \in SettingValues :
       /\ env' = [GITHUB_TOKEN |-> IF githubToken # Undefined THEN githubToken.v
                                   ELSE env.GITHUB_TOKEN,
                  LINEAR_API_KEY |-> IF linearApiKey # Undefined THEN linearApiKey.v
                                     ELSE env.LINEAR_API_KEY]
       /\ agents' = [a \in DOMAIN agents |-> [agents[a] EXCEPT !.allowedTools = <<>>]]
  /\ UNCHANGED <<run, req, conversations, messages, scope, aside>>

\* POST /api/settings: the tokens given replace those of the environment.
SettingsPost ==
  /\ \E githubToken, linearApiKey \in SettingValues :
       env' = [GITHUB_TOKEN |-> IF githubToken # Undefined THEN githubToken.v
                                ELSE env.GITHUB_TOKEN,
               LINEAR_API_KEY |-> IF linearApiKey # Undefined THEN linearApiKey.v
                                  ELSE env.LINEAR_API_KEY]
  /\ UNCHANGED <<run, req, agents, conversations, messages, scope, aside>>

\* The file field of an upload: missing, without content, a text file, and a
\* file of another type, whose content is base64.
NoFile == [name |-> EmptyString, content |-> EmptyString, type |-> EmptyString]

Files ==
  {NoFile,
   [name |-> <<"empty.txt">>, content |-> EmptyString, type |-> <<"text/", "plain">>],
   [name |-> <<"notes.txt">>, content |-> <<"hi">>, type |-> <<"text/", "plain">>],
   [name |-> <<"notes.bin">>, content |-> <<"aGk=">>, type |-> <<"application/", "pdf">>]}

\* Buffer.from(content, 'base64').toString('utf-8')
Base64Decode(content) == IF content = <<"aGk=">> THEN <<"hi">> ELSE EmptyString

FileContent(file) ==
  IF Truthy(file.type) /\ ~StartsWith(file.type, "text/")
    THEN Base64Decode(file.content) ELSE file.content

EnrichedMessage(file, message) ==
  <<"[Datei: ">> \o file.name \o <<"]", "\n", "fence", "\n">> \o FileContent(file)
    \o <<"\n", "fence", "\n", "\n", "User: ">> \o Trim(message)

UploadBodies ==
  [message : {Str(EmptyString), Str(<<" ", "hello", " ">>)},
   conversationId : ConversationIds, file : Files,
   githubToken : {EmptyString}, linearApiKey : {EmptyString}]

\* POST /api/agents/:id/chat/upload up to its first await.
UploadReceive(r) ==
  /\ req[r].pc = "new"
  /\ \E a \in AddressedAgents, body \in UploadBodies :
       LET rq == [req[r] EXCEPT !.agentId = a, !.body = body, !.route = "upload"]
       IN req' = [req EXCEPT ![r] =
            IF a \notin DOMAIN agents THEN Respond(rq, 404)
            ELSE IF InvalidMessage(body.message) THEN Respond(rq, 400)
            ELSE IF ~Truthy(body.file.name) \/ ~Truthy(body.file.content)
              THEN Respond(rq, 400)
            ELSE [rq EXCEPT
                    !.convId = body.conversationId,
                    !.pc = IF body.conversationId # NoConversation
                             THEN "uploadGetConversation"
                             ELSE "uploadCreateConversation"]]
  /\ UNCHANGED <<run, agents, env, conversations, messages, scope, aside>>

UploadGetConversation(r) ==
  /\ req[r].pc = "uploadGetConversation"
  /\ LET rq == [req[r] EXCEPT !.dbOps = @ + 1]
     IN req' = [req EXCEPT ![r] =
          IF rq.convId \notin DOMAIN conversations THEN Respond(rq, 404)
          ELSE IF conversations[rq.convId].agent_id # rq.agentId THEN Respond(rq, 400)
          ELSE [rq EXCEPT !.pc = "uploadAddUser"]]
  /\ UNCHANGED <<run, agents, env, conversations, messages, scope, aside>>

UploadCreateConversation(r) ==
  /\ req[r].pc = "uploadCreateConversation"
  /\ FreshIds \ DOMAIN conversations # {}
  /\ LET id == CHOOSE c \in FreshIds \ DOMAIN conversations : TRUE
     IN /\ conversations' = CreateConversation(conversations, id, req[r].agentId)
        /\ req' = [req EXCEPT ![r].convId = id, ![r].dbOps = @ + 1,
                              ![r].pc = "uploadAddUser"]
  /\ UNCHANGED <<run, agents, env, messages, scope, aside>>

\* db.addMessage(convId, 'user', enrichedMessage).
UploadAddUserMessage(r) ==
  /\ req[r].pc = "uploadAddUser"
  /\ IF req[r].convId \in DOMAIN conversations
       THEN /\ messages' = AddMessage(messages, req[r].convId, "user",
                                      EnrichedMessage(req[r].body.file,
                                                      req[r].body.message.v))
            /\ req' = [req EXCEPT ![r].dbOps = @ + 1,
                                  ![r].stored = Append(@, messages'[Len(messages')]),
                                  ![r].pc = "uploadGetMessages"]
       ELSE /\ req' = [req EXCEPT ![r] = Fail([req[r] EXCEPT !.dbOps = @ + 1], ForeignKeyError)]
            /\ UNCHANGED messages
  /\ UNCHANGED <<run, agents, env, conversations, scope, aside>>

\* db.getMessages, the message array and the call of ollama.chat; from there
\* on the handler goes as the chat route does without tools.
UploadGetMessages(r) ==
  /\ req[r].pc = "uploadGetMessages"
  /\ LET rq == req[r]
         history == GetMessages(messages, rq.convId, HistoryLimit)
         ollamaMessages ==
           <<Message("system", agents[rq.agentId].systemInstructions, NoCalls, NoId)>>
             \o [i \in DOMAIN history |->
                   Message(history[i].role, history[i].content, NoCalls, NoId)]
     IN req' = [req EXCEPT ![r].dbOps = @ + 1,
                           ![r].ollamaMessages = ollamaMessages,
                           ![r].chatSent = Append(@, ollamaMessages),
                           ![r].pc = "chat"]
  /\ UNCHANGED <<run, agents, env, conversations, messages, scope, aside>>

\* GET /api/github/repos: the token of the query, of the header or of the
\* environment, and executeFunction('github_list_repos', {}, token).
GitHubReposProxy ==
  /\ Len(invocations) < MaxInvocations
  /\ \E queryToken, headerToken \in Credentials, outcome \in NetworkOutcomes :
       LET token == OrElse(queryToken, OrElse(headerToken, env.GITHUB_TOKEN))
           result == GitHubExecuteFunction(GitHubListRepos, ObjectArgs, token, outcome)
       IN invocations' = Append(invocations,
            IF ~Truthy(token)
              THEN [executor |-> "none", name |-> GitHubListRepos, args |-> ObjectArgs,
                    outcome |-> outcome, result |-> Returned(ErrorObject(<<"GitHub not configured">>)),
                    status |-> 503]
              ELSE [executor |-> "github", name |-> GitHubListRepos, args |-> ObjectArgs,
                    outcome |-> outcome, result |-> result,
                    status |-> IF result.value.v[1] = "{error:" THEN 500 ELSE 200])
  /\ UNCHANGED <<run, server, scope, memory, stream, health, startup>>

\* The traffic of one kind has begun.
Started(kind) ==
  CASE kind = "conversation" -> \E r \in AllReqs : req[r].pc # "new"
    [] kind = "memory" -> upserts # <<>> \/ \E r \in AllReqs : memreq[r].pc # "new"
    [] kind = "health" -> health # NoHealth
    [] kind = "proxy" -> invocations # <<>>

\* The kinds of traffic share no state but the store and the environment:
\* they are followed one kind at a time, one memory write, one health
\* request or one proxy request, with settings and deletions at any point.
Only(kind) ==
  \A other \in {"conversation", "memory", "health", "proxy"} \ {kind} : ~Started(other)

NextServer ==
  \/ Only("conversation") /\ Next
  \/ Only("conversation") /\
       \E r \in Reqs :
         \/ UploadReceive(r)
         \/ UploadGetConversation(r)
         \/ UploadCreateConversation(r)
         \/ UploadAddUserMessage(r)
         \/ UploadGetMessages(r)
  \/ Only("memory") /\ upserts = <<>> /\ NextMemory
  \/ Only("health") /\ health.reports = <<>> /\ NextHealth
  \/ Only("proxy") /\ invocations = <<>> /\ GitHubReposProxy
  \/ ConversationDelete
  \/ SettingsPost

\* The server after startup: no token in the environment until one is set,
\* and a runtime that asks for one tool call at most.
InitServer ==
  /\ run = [r \in AllReqs |-> IdleRun]
  /\ req = [r \in AllReqs |-> NewRequest]
  /\ scope = [kinds |-> ChatCallKinds, calls |-> 1, batch |-> 1,
              requests |-> {"r1"}, lines |-> 1]
  /\ env = [GITHUB_TOKEN |-> EmptyString, LINEAR_API_KEY |-> EmptyString]
  /\ InitStore
  /\ InitAside

SpecServer == InitServer /\ [][NextServer]_vars

\* ------------------------------------ two chat requests side by side
\* Two chat requests without credentials, so that both call the model
\* directly; their steps interleave at every await.
NextTwoChats ==
  \E r \in Reqs :
    \/ ChatReceive(r)
    \/ ChatGetConversation(r)
    \/ ChatCreateConversation(r)
    \/ ChatAddUserMessage(r)
    \/ ChatGetMessages(r)
    \/ ChatModelResponds(r)
    \/ ChatAddAssistantMessage(r)

InitTwoChats ==
  /\ run = [r \in AllReqs |-> IdleRun]
  /\ req = [r \in AllReqs |-> NewRequest]
  /\ scope = [kinds |-> {}, calls |-> 0, batch |-> 0, requests |-> AllReqs, lines |-> 1]
  /\ env = [GITHUB_TOKEN |-> EmptyString, LINEAR_API_KEY |-> EmptyString]
  /\ InitStore
  /\ InitAside

SpecTwoChats == InitTwoChats /\ [][NextTwoChats]_vars

\* ------------------------------------ a chat request on a long conversation
\* A conversation of n rows, user and assistant in turn.
RECURSIVE Exchanges(_, _)
Exchanges(conversationId, n) ==
  IF n = 0 THEN <<>>
  ELSE AddMessage(Exchanges(conversationId, n - 1), conversationId,
                  IF n % 2 = 1 THEN "user" ELSE "assistant",
                  IF n % 2 = 1 THEN <<"earlier">> ELSE <<"reply">>)

\* One chat request; the conversation "c1" holds no row, one row fewer than
\* the limit of the history query, or as many rows as the limit.
InitLongHistory ==
  /\ run = [r \in AllReqs |-> IdleRun]
  /\ req = [r \in AllReqs |-> NewRequest]
  /\ scope = [kinds |-> {}, calls |-> 0, batch |-> 0, requests |-> {"r1"}, lines |-> 1]
  /\ env = [GITHUB_TOKEN |-> EmptyString, LINEAR_API_KEY |-> EmptyString]
  /\ agents = AgentDefs
  /\ conversations = [c \in {"c1", "c2"} |-> [agent_id |-> IF c = "c1" THEN "a0" ELSE "a1"]]
  /\ \E n \in {0, HistoryLimit - 1, HistoryLimit} : messages = Exchanges("c1", n)
  /\ InitAside

SpecLongHistory == InitLongHistory /\ [][NextTwoChats]_vars

\* ------------------------------------------- catalog against dispatch
\* executeTool as a whole: what its promise settles to when the executor's
\* request ends with the given outcome, and the executor the call went to.
ExecuteTool(toolCall, githubToken, linearApiKey, outcome) ==
  LET sync == ExecuteToolSync(toolCall, githubToken, linearApiKey)
      args == IF toolCall.arguments.t = "string"
                THEN JSONParse(toolCall.arguments.v).value ELSE toolCall.arguments
  IN IF sync.status # "inflight" THEN [executor |-> "none", promise |-> sync]
     ELSE IF StartsWith(toolCall.name, "github_")
       THEN [executor |-> "github",
             promise |-> Resolved(GitHubExecuteFunction(toolCall.name, args,
                                                        githubToken, outcome).value.v)]
       ELSE [executor |-> "linear",
             promise |-> Resolved(LinearExecuteFunction(toolCall.name, args,
                                                        linearApiKey, outcome).value.v)]

\* The names a tool call may carry: every catalogued function, a name of each
\* routed prefix that is no function, and a name without a routed prefix.
CallNames ==
  {GitHubTools[i] : i \in DOMAIN GitHubTools} \cup {LinearTools[i] : i \in DOMAIN LinearTools}
    \cup {GitHubBogus, LinearBogus, WebSearch}

\* One tool call executed under some pair of credentials.
ToolDispatch ==
  /\ invocations = <<>>
  /\ \E name \in CallNames, arguments \in ArgumentValues,
        githubToken \in Credentials, linearApiKey \in Credentials,
        outcome \in NetworkOutcomes :
       LET settled == ExecuteTool([name |-> name, arguments |-> arguments],
                                  githubToken, linearApiKey, outcome)
       IN invocations' = Append(invocations,
            [executor |-> settled.executor, name |-> name, args |-> arguments,
             outcome |-> outcome, result |-> settled.promise,
             githubToken |-> githubToken, linearApiKey |-> linearApiKey])
  /\ UNCHANGED <<run, server, scope, memory, stream, health, startup>>

SpecCatalog == InitExecutors /\ [][ToolDispatch]_vars

\* ------------------------------------ settings between chat requests
\* The environment at startup holds no credential or one that no request
\* body and no settings request carries.
StartupCredentials == {EmptyString, <<"startup">>}

InitSettings ==
  /\ run = [r \in AllReqs |-> IdleRun]
  /\ req = [r \in AllReqs |-> NewRequest]
  /\ scope = [kinds |-> ChatCallKinds, calls |-> 1, batch |-> 1,
              requests |-> {"r1"}, lines |-> 1]
  /\ env \in [GITHUB_TOKEN : StartupCredentials, LINEAR_API_KEY : StartupCredentials]
  /\ InitStore
  /\ InitAside

NextSettings == Next \/ SettingsPost

SpecSettings == InitSettings /\ [][NextSettings]_vars

\* ------------------------------------------------------- initAgentMemory
MaxBoots == 2

\* lettaConfig.memoryBlocks of the loaded agents, in the order of the agents
\* map: "a0" has a block with label and value and one without a value, "a1"
\* has no lettaConfig.
ConfiguredBlocks ==
  <<[agent_id |-> "a0", label |-> <<"persona">>, value |-> <<"configured">>],
    [agent_id |-> "a0", label |-> <<"human">>, value |-> EmptyString]>>

\* getAgentMemory: the rows of the agent (their order plays no part in the
\* test made on them).
GetAgentMemory(rows, agentId) == SelectSeq(rows, LAMBDA m : m.agent_id = agentId)

\* if (block.label && block.value): the blocks before the next one that has
\* both are passed over.
RECURSIVE SkipBlocks(_)
SkipBlocks(todo) ==
  IF todo = <<>> THEN <<>>
  ELSE IF Truthy(todo[1].label) /\ Truthy(todo[1].value) THEN todo
  ELSE SkipBlocks(Tail(todo))

\* The loops of initAgentMemory up to the next await, or to their end, after
\* which start() goes on to listen.
Advance(st, todo) ==
  LET rest == SkipBlocks(todo)
  IN [st EXCEPT !.todo = rest, !.pc = IF rest = <<>> THEN "listening" ELSE "getMemory"]

\* start() up to the first await of initAgentMemory.
Boot(boots) ==
  Advance([pc |-> "getMemory", boots |-> boots, todo |-> <<>>, initialized |-> 0],
          ConfiguredBlocks)

\* Faulty variant of InitAgentMemoryGet: the block is written whether or not
\* a row with its label exists.
InitAgentMemoryGetBlind ==
  /\ startup.pc = "getMemory"
  /\ \E ok \in BOOLEAN :
       startup' = IF ok THEN [startup EXCEPT !.pc = "upsert"]
                  ELSE Advance(startup, Tail(startup.todo))
  /\ UNCHANGED <<run, server, scope, invocations, memory, stream, health>>

\* await db.getAgentMemory(agentId) and the test existing.some(...); a
\* failure of the query is caught and the block is left.
InitAgentMemoryGet ==
  /\ startup.pc = "getMemory"
  /\ \E ok \in BOOLEAN :
       LET block == startup.todo[1]
           existing == GetAgentMemory(agent_memory, block.agent_id)
           exists == \E i \in DOMAIN existing : existing[i].label = block.label
       IN startup' = IF ok /\ ~exists THEN [startup EXCEPT !.pc = "upsert"]
                     ELSE Advance(startup, Tail(startup.todo))
  /\ UNCHANGED <<run, server, scope, invocations, memory, stream, health>>

\* await db.upsertAgentMemory(agentId, block.label, block.value); a failure
\* is caught and the block is left.
InitAgentMemoryUpsert ==
  /\ startup.pc = "upsert"
  /\ LET block == startup.todo[1]
     IN \E ok \in BOOLEAN :
          IF ok
            THEN /\ agent_memory' = UpsertAgentMemory(agent_memory, block.agent_id,
                                                     block.label, block.value,
                                                     Len(upserts) + 1)
                 /\ upserts' = Append(upserts, [agent_id |-> block.agent_id,
                                                label |-> block.label,
                                                value |-> block.value])
                 /\ startup' = Advance([startup EXCEPT !.initialized = @ + 1],
                                       Tail(startup.todo))
            ELSE /\ startup' = Advance(startup, Tail(startup.todo))
                 /\ UNCHANGED <<agent_memory, upserts>>
  /\ UNCHANGED <<run, server, scope, invocations, memreq, stream, health>>

\* The process is stopped and started again: the handlers under way are
\* gone, the tables stay.
Restart ==
  /\ startup.pc = "listening"
  /\ startup.boots < MaxBoots
  /\ startup' = Boot(startup.boots + 1)
  /\ memreq' = [r \in AllReqs |-> NewMemoryRequest]
  /\ UNCHANGED <<run, server, scope, invocations, agent_memory, upserts, stream, health>>

\* The memory route is served once the process listens.
NextStartup ==
  \/ InitAgentMemoryGet
  \/ InitAgentMemoryUpsert
  \/ Restart
  \/ startup.pc = "listening" /\ NextMemory

InitStartup ==
  /\ run = [r \in AllReqs |-> IdleRun]
  /\ req = [r \in AllReqs |-> NewRequest]
  /\ scope = [kinds |-> {}, calls |-> 0, batch |-> 0, requests |-> {"r1"}, lines |-> 1]
  /\ env = [GITHUB_TOKEN |-> EmptyString, LINEAR_API_KEY |-> EmptyString]
  /\ InitStore
  /\ invocations = <<>>
  /\ agent_memory = <<>>
  /\ upserts = <<>>
  /\ memreq = [r \in AllReqs |-> NewMemoryRequest]
  /\ stream = NoStream
  /\ health = NoHealth
  /\ startup = Boot(1)

SpecStartup == InitStartup /\ [][NextStartup]_vars

\* --------------------------------------------------------- waitForOllama
MaxRetries == 4

DelayCap == 15000

\* The initialDelay values tried: the defaults of the two versions of the
\* client, the cap, and a value above it. From each of them delay * 1.5 is a
\* whole number until the cap is reached.
InitialDelays == {2000, 3000, DelayCap, 20000}

Min(a, b) == IF a <= b THEN a ELSE b

\* The for condition, and then either the next attempt (up to its await) or
\* the return of false.
Attempt(st) ==
  IF st.attempt <= st.maxRetries THEN [st EXCEPT !.pc = "get"]
  ELSE [st EXCEPT !.pc = "returned", !.result = FALSE]

\* waitForOllama(maxRetries, initialDelay) up to its first await, with what
\* it has observably done: outcomes (of the requests made), waits (the
\* timeouts it has slept).
WaitForOllama(maxRetries, initialDelay) ==
  Attempt([pc |-> "get", maxRetries |-> maxRetries, delay |-> initialDelay,
           attempt |-> 1, result |-> FALSE, outcomes |-> <<>>, waits |-> <<>>])

\* await client.get('/api/tags'): return true, or go to sleep.
WaitForOllamaGet ==
  /\ startup.pc = "get"
  /\ \E outcome \in NetworkOutcomes :
       startup' = IF outcome = "ok"
                    THEN [startup EXCEPT !.outcomes = Append(@, outcome),
                                         !.result = TRUE, !.pc = "returned"]
                    ELSE [startup EXCEPT !.outcomes = Append(@, outcome), !.pc = "sleep"]
  /\ UNCHANGED <<run, server, scope, invocations, memory, stream, health>>

\* The timeout has passed: delay = Math.min(delay * 1.5, 15000), attempt++.
WaitForOllamaSleep ==
  /\ startup.pc = "sleep"
  /\ startup' = Attempt([startup EXCEPT !.waits = Append(@, startup.delay),
                                        !.delay = Min((startup.delay * 3) \div 2, DelayCap),
                                        !.attempt = @ + 1])
  /\ UNCHANGED <<run, server, scope, invocations, memory, stream, health>>

NextWait == WaitForOllamaGet \/ WaitForOllamaSleep

InitWait ==
  /\ run = [r \in AllReqs |-> IdleRun]
  /\ req = [r \in AllReqs |-> NewRequest]
  /\ scope = [kinds |-> {}, calls |-> 0, batch |-> 0, requests |-> {"r1"}, lines |-> 1]
  /\ env = [GITHUB_TOKEN |-> EmptyString, LINEAR_API_KEY |-> EmptyString]
  /\ InitStore
  /\ invocations = <<>>
  /\ agent_memory = <<>>
  /\ upserts = <<>>
  /\ memreq = [r \in AllReqs |-> NewMemoryRequest]
  /\ stream = NoStream
  /\ health = NoHealth
  /\ \E maxRetries \in 0..MaxRetries, initialDelay \in InitialDelays :
       startup = WaitForOllama(maxRetries, initialDelay)

SpecWait == InitWait /\ [][NextWait]_vars

\* ================================================================= claims
Unsettled(st) == st.pc = "awaitTools"

RequestsToolCalls(response) == response.ok /\ Len(response.message.tool_calls) > 0

\* C1: a run sends at most maxIterations requests, and when each of the
\* maxIterations responses contains tool calls the run returns the fallback
\* result with maxIterationsReached = true instead of raising.
C1_CeilingGivesFallback ==
  \A r \in Reqs :
    LET st == run[r]
    IN /\ Len(st.sent) <= st.maxIterations
       /\ ( /\ Len(st.received) = st.maxIterations
            /\ \A k \in DOMAIN st.received : RequestsToolCalls(st.received[k])
            /\ ~Unsettled(st) )
          => st.pc = "returned" /\ st.result.maxIterationsReached

Unregistered(name) == name \notin {GitHubListRepos, LinearListTeams}

IsErrorJSON(content) == StartsWith(content, "{error:")

\* The results of the current batch, as pushed to allToolResults.
BatchResults(st) ==
  LET n == Len(st.calls)
      m == Len(st.allToolResults)
  IN IF m < n THEN <<>> ELSE SubSeq(st.allToolResults, m - n + 1, m)

\* C2: in every batch a call to an unregistered function yields an {error}
\* result without raising, every sibling completes, and the n calls of the
\* batch produce n results.
C2_UnknownToolIsolated ==
  \A r \in Reqs :
    LET st == run[r]
    IN (st.calls # NoCalls /\ ~Unsettled(st)) =>
         /\ \A i \in DOMAIN st.calls :
              /\ st.exec[i].status = "resolved"
              /\ Unregistered(st.calls[i].name) => IsErrorJSON(st.exec[i].content)
         /\ Len(BatchResults(st)) = Len(st.calls)
         /\ \A i \in DOMAIN st.calls : BatchResults(st)[i].content = st.exec[i].content

\* C3: no tool call aborts the loop: a run raises only when a request to the
\* model runtime failed.
C3_OnlyModelFailureRaises ==
  \A r \in Reqs :
    LET st == run[r]
    IN st.pc = "raised" =>
         /\ Len(st.received) > 0
         /\ ~st.received[Len(st.received)].ok

\* C4: a failed model request is raised at once: it is the last response of
\* the run, its error is the run's error, no request follows it, no executor
\* is running or started after it and no result is returned.
C4_ModelFailurePropagates ==
  \A r \in Reqs :
    LET st == run[r]
    IN \A k \in DOMAIN st.received :
         ~st.received[k].ok =>
           /\ k = Len(st.received)
           /\ st.pc = "raised"
           /\ st.error = st.received[k].error
           /\ Len(st.sent) = k
           /\ st.result = NoResult
           /\ \A i \in DOMAIN st.exec : st.exec[i].status = "resolved"
           /\ \A j \in DOMAIN st.dispatched : st.dispatched[j][1] < k

C4_Witness ==
  \E r \in Reqs :
    /\ run[r].pc = "raised"
    /\ Len(run[r].received) = 2
    /\ ~run[r].received[2].ok
    /\ Len(run[r].dispatched) > 0

\* C5: for every batch and every completion order processToolCalls returns
\* one result per call, results[i].tool_call_id = calls[i].id.
C5_ResultPerCallById ==
  \A r \in Reqs :
    LET st == run[r]
    IN (st.calls # NoCalls /\ ~Unsettled(st)) =>
         /\ Len(BatchResults(st)) = Len(st.calls)
         /\ \A i \in DOMAIN st.calls : BatchResults(st)[i].tool_call_id = st.calls[i].id

\* The tool calls requested by the assistant messages of a sequence.
RequestedCalls(msgs) ==
  LET F[n \in 0..Len(msgs)] ==
        IF n = 0 THEN <<>> ELSE F[n - 1] \o msgs[n].tool_calls
  IN F[Len(msgs)]

ToolMessages(msgs) == SelectSeq(msgs, LAMBDA m : m.role = "tool")

\* C6: every tool-role message of the working sequence carries the
\* identifier of the call it answers.
C6_ToolMessageCarriesId ==
  \A r \in Reqs :
    LET tm == ToolMessages(run[r].currentMessages)
        rc == RequestedCalls(run[r].currentMessages)
    IN \A i \in DOMAIN tm : i <= Len(rc) /\ tm[i].tool_call_id = rc[i].id

Collected(st) == st.calls # NoCalls /\ st.pc \in {"awaitModel", "returned"}

\* C7: the tool messages of a batch are appended in the order the model
\* submitted the calls, whatever the order the executors completed in: after
\* a batch the working sequence ends with the assistant message and then the
\* content of call 1, call 2, ...
C7_SubmissionOrder ==
  \A r \in Reqs :
    LET st == run[r]
        n == Len(st.calls)
        L == Len(st.currentMessages)
    IN Collected(st) =>
         /\ L > n
         /\ st.currentMessages[L - n].tool_calls = st.calls
         /\ \A i \in 1..n :
              /\ st.currentMessages[L - n + i].role = "tool"
              /\ st.currentMessages[L - n + i].content = st.exec[i].content

C7_Witness ==
  \E r \in Reqs :
    /\ Collected(run[r])
    /\ Len(run[r].calls) = 2
    /\ run[r].exec[2].doneAt > 0
    /\ run[r].exec[1].doneAt > run[r].exec[2].doneAt
    /\ run[r].exec[1].content # run[r].exec[2].content

\* C8: iterations are sequential: while a request is with the model no tool
\* call is executing, and the request of iteration k holds one tool message
\* for every call requested in iterations 1..k-1.
C8_IterationsSequential ==
  \A r \in Reqs :
    LET st == run[r]
    IN /\ st.pc = "awaitModel" => \A i \in DOMAIN st.exec : st.exec[i].status = "resolved"
       /\ \A k \in DOMAIN st.sent :
            /\ RequestedCalls(st.sent[k]) =
                 RequestedCalls([j \in 1..(k - 1) |-> st.received[j].message])
            /\ Len(ToolMessages(st.sent[k])) = Len(RequestedCalls(st.sent[k]))

C8_Witness ==
  \E r \in Reqs :
    /\ run[r].pc = "awaitModel"
    /\ run[r].iterations = 2
    /\ run[r].completions > 0

ModelCalls(r) == Len(req[r].chatSent) + Len(run[r].sent)

\* C9: a chat request to an agent with zero permitted tools never invokes the
\* orchestration loop, and when it succeeds it has made exactly one model call.
C9_NoToolsNoLoop ==
  \A r \in Reqs :
    LET rq == req[r]
    IN (rq.agentId \in DOMAIN agents /\ agents[rq.agentId].allowedTools = <<>>) =>
         /\ ~rq.loopInvoked
         /\ rq.status = 200 => ModelCalls(r) = 1

\* Missing, not a string, empty or blanks only.
BadMessage(message) ==
  \/ message.t # "string"
  \/ \A i \in DOMAIN message.v : message.v[i] = " "

\* C10: a chat request whose message is missing, not a string, empty or
\* blank is rejected in the step that receives it, with the validation error
\* (400) when the addressed agent is loaded: no store operation and no model
\* call is made for it, and the step leaves the store unchanged.
C10_InvalidMessageRejected ==
  /\ [](\A r \in Reqs :
          LET rq == req[r]
          IN (rq.pc # "new" /\ BadMessage(rq.body.message)) =>
               /\ rq.pc = "done"
               /\ rq.status = IF rq.agentId \in DOMAIN agents THEN 400 ELSE 404
               /\ rq.dbOps = 0
               /\ ModelCalls(r) = 0
               /\ ~rq.loopInvoked)
  /\ [][\A r \in Reqs :
          (req[r].pc = "new" /\ req'[r].pc = "done") =>
            UNCHANGED <<conversations, messages>>]_vars

C10_Witness ==
  \E r \in Reqs :
    /\ req[r].status = 400
    /\ req[r].agentId \in DOMAIN agents
    /\ req[r].body.message = Str(<<" ", " ">>)
    /\ req[r].body.conversationId = "c1"

\* The request has been received by one of the two chat routes, for a loaded
\* agent and with a valid message.
Admitted(rq) ==
  /\ rq.route # "none"
  /\ rq.agentId \in DOMAIN agents
  /\ ~BadMessage(rq.body.message)

AtConversationCheck(rq) == rq.pc \in {"getConversation", "streamGetConversation"}

PastConversationCheck(rq) == rq.pc # "new" /\ ~AtConversationCheck(rq)

\* The conversation the request names exists and belongs to another agent.
Foreign(rq) ==
  /\ rq.body.conversationId \in DOMAIN conversations
  /\ conversations[rq.body.conversationId].agent_id # rq.agentId

\* The request was answered with an error about its conversation: a status
\* on the chat route, an error event on the stream route.
RejectedWith(rq, status, event) ==
  /\ rq.pc = "done"
  /\ IF rq.route = "chat" THEN rq.status = status
     ELSE rq.events = <<SSEError(event, EmptyString)>>

\* Nothing was stored and no model call was made for the request.
NoEffects(r) ==
  /\ req[r].stored = <<>>
  /\ ModelCalls(r) = 0
  /\ ~req[r].loopInvoked

\* C11: a chat request naming a conversation of another agent is rejected
\* with an error (400 on the chat route, an error event on the stream route)
\* by the step that looked the conversation up; that step leaves the store
\* unchanged, the request appends no message and makes no model call.
C11_ForeignConversationRejected ==
  /\ [](\A r \in Reqs :
          (Admitted(req[r]) /\ Foreign(req[r]) /\ PastConversationCheck(req[r])) =>
            /\ RejectedWith(req[r], 400, ConversationOfOtherAgent)
            /\ req[r].dbOps = 1
            /\ NoEffects(r))
  /\ [][\A r \in Reqs :
          (AtConversationCheck(req[r]) /\ Foreign(req[r]) /\ req'[r] # req[r]) =>
            /\ req'[r].pc = "done"
            /\ UNCHANGED <<conversations, messages, run>>]_vars

C11_Witness ==
  \E r \in Reqs :
    /\ req[r].route = "chat"
    /\ req[r].agentId = "a0"
    /\ req[r].body.conversationId = "c2"
    /\ req[r].body.message = Str(<<" ", "hello", " ">>)
    /\ req[r].status = 400

\* The conversation the request names does not exist.
Missing(rq) ==
  /\ rq.body.conversationId # NoConversation
  /\ rq.body.conversationId \notin DOMAIN conversations

\* C12: a chat request to an agent that is not loaded is answered 404 by the
\* step that receives it, and a request naming a conversation that does not
\* exist is answered not found (404 on the chat route, an error event on the
\* stream route) by the step that looked it up; these steps leave the store
\* unchanged, and the request creates no conversation, appends no message
\* and makes no model call.
C12_NotFoundNoSideEffects ==
  /\ [](\A r \in Reqs :
          LET rq == req[r]
          IN /\ (rq.route # "none" /\ rq.agentId \notin DOMAIN agents) =>
                  /\ rq.pc = "done"
                  /\ rq.status = 404
                  /\ rq.dbOps = 0
                  /\ NoEffects(r)
             /\ (Admitted(rq) /\ Missing(rq) /\ PastConversationCheck(rq)) =>
                  /\ RejectedWith(rq, 404, ConversationNotFound)
                  /\ rq.dbOps = 1
                  /\ NoEffects(r))
  /\ [][\A r \in Reqs :
          \/ req[r].pc = "new" /\ req'[r].status = 404
          \/ AtConversationCheck(req[r]) /\ Missing(req[r]) /\ req'[r] # req[r]
          => /\ req'[r].pc = "done"
             /\ UNCHANGED <<conversations, messages, run>>]_vars

C12_Witness ==
  \E r \in Reqs :
    /\ req[r].route = "chat"
    /\ req[r].agentId = "a1"
    /\ req[r].body.conversationId = "c9"
    /\ req[r].body.message = Str(<<" ", "hello", " ">>)
    /\ req[r].status = 404
    /\ req[r].dbOps = 1

Succeeded(rq) == rq.route = "chat" /\ rq.pc = "done" /\ rq.status = 200

Row(conversationId, role, content) ==
  [conversation_id |-> conversationId, role |-> role, content |-> content]

\* The rows of a sequence without their creation time.
Rows(rows) ==
  [i \in DOMAIN rows |-> Row(rows[i].conversation_id, rows[i].role, rows[i].content)]

\* The rows the request inserts in a step.
NewlyStored(r) == SubSeq(req'[r].stored, Len(req[r].stored) + 1, Len(req'[r].stored))

\* C13: a successful chat request has inserted exactly two rows into its
\* conversation, the trimmed user turn and then the answered assistant text
\* (the result of the loop when the loop ran); rows enter the table only by
\* these inserts, and no row of the table has role tool.
C13_TwoMessagesPersisted ==
  /\ [](/\ \A r \in Reqs :
            Succeeded(req[r]) =>
              /\ Rows(req[r].stored) =
                   <<Row(req[r].convId, "user", Trim(req[r].body.message.v)),
                     Row(req[r].convId, "assistant", req[r].assistantMessage)>>
              /\ req[r].loopInvoked =>
                   /\ run[r].pc = "returned"
                   /\ req[r].assistantMessage = run[r].result.message
         /\ \A i \in DOMAIN messages : messages[i].role \in {"user", "assistant"})
  /\ [][\E r \in Reqs : messages' = messages \o NewlyStored(r)]_vars

C13_Witness ==
  \E r \in Reqs :
    /\ Succeeded(req[r])
    /\ req[r].loopInvoked
    /\ Len(ToolMessages(run[r].currentMessages)) > 0
    /\ Len(req[r].stored) = 2

\* C14: a response without tool calls ends the run: it is the last response,
\* the run has returned its text content without the maxIterationsReached
\* flag, no request was sent after it, no executor is running and none was
\* started in or after its iteration.
C14_FinalAnswerEndsRun ==
  \A r \in Reqs :
    LET st == run[r]
    IN \A k \in DOMAIN st.received :
         (st.received[k].ok /\ ~RequestsToolCalls(st.received[k])) =>
           /\ k = Len(st.received)
           /\ st.pc = "returned"
           /\ st.result.message = st.received[k].message.content
           /\ ~st.result.maxIterationsReached
           /\ st.result.iterations = k
           /\ st.result.toolResults = st.allToolResults
           /\ Len(st.sent) = k
           /\ \A i \in DOMAIN st.exec : st.exec[i].status = "resolved"
           /\ \A j \in DOMAIN st.dispatched : st.dispatched[j][1] < k

C14_Witness ==
  \E r \in Reqs :
    /\ run[r].pc = "returned"
    /\ Len(run[r].received) = 2
    /\ ~run[r].result.maxIterationsReached
    /\ run[r].received[2].message.content = EmptyString
    /\ Len(run[r].dispatched) > 0

\* The content of the last message of the working sequence: the last tool
\* result when there is one, else the last message the caller passed.
LastContent(st) ==
  IF Len(st.allToolResults) > 0 THEN st.allToolResults[Len(st.allToolResults)].content
  ELSE IF Len(st.messages) > 0 THEN st.messages[Len(st.messages)].content
  ELSE EmptyString

\* C15: a result with maxIterationsReached is returned only after
\* maxIterations responses that all requested tool calls, and its message is
\* the content of the last message of the working sequence, or the default
\* text when there is no such content.
C15_FallbackCarriesLastContent ==
  \A r \in Reqs :
    LET st == run[r]
    IN (st.pc = "returned" /\ st.result.maxIterationsReached) =>
         /\ Len(st.received) = st.maxIterations
         /\ \A k \in DOMAIN st.received : RequestsToolCalls(st.received[k])
         /\ st.result.iterations = st.maxIterations
         /\ st.result.toolResults = st.allToolResults
         /\ st.result.message =
              IF LastContent(st) # EmptyString THEN LastContent(st)
              ELSE DefaultFallbackText
         /\ st.currentMessages # <<>> =>
              LastContent(st) = st.currentMessages[Len(st.currentMessages)].content

C15_Witness ==
  \E r \in Reqs :
    /\ run[r].pc = "returned"
    /\ run[r].result.maxIterationsReached
    /\ run[r].result.iterations = 2
    /\ run[r].completions > 0
    /\ run[r].result.message = run[r].exec[Len(run[r].exec)].content

Exhausted(st) == st.pc = "returned" /\ st.result.maxIterationsReached

\* C16: when the loop of a chat request returns the fallback result, the
\* handler goes on as for a final answer: it stores the fallback text as the
\* assistant message and answers 200, never an error.
C16_CeilingIsSuccess ==
  \A r \in Reqs :
    LET rq == req[r]
    IN (rq.route = "chat" /\ rq.loopInvoked /\ Exhausted(run[r]) /\ rq.pc # "tools") =>
         /\ rq.pc \in {"addAssistant", "done"}
         /\ rq.assistantMessage = run[r].result.message
         /\ rq.error = EmptyString
         /\ rq.pc = "done" =>
              /\ rq.status = 200
              /\ Len(rq.stored) = 2
              /\ Rows(rq.stored)[2] = Row(rq.convId, "assistant", run[r].result.message)
              /\ messages[Len(messages)] = rq.stored[2]

C16_Witness ==
  \E r \in Reqs :
    /\ Succeeded(req[r])
    /\ Exhausted(run[r])
    /\ run[r].result.iterations = ChatMaxIterations
    /\ Len(run[r].sent) = ChatMaxIterations

InSeq(x, seq) == \E j \in DOMAIN seq : seq[j] = x

InvalidJSONArguments == JSONError(<<"Invalid JSON arguments">>)

\* The promise of call i was settled by executeTool itself, in the step that
\* dispatched the batch: no executor was invoked for it.
SettledAtDispatch(st, i) ==
  /\ st.exec[i].status = "resolved"
  /\ st.exec[i].doneAt = 0
  /\ ~InSeq(st.calls[i].id, st.dispatched)

\* C17: a call whose arguments are a string that is no JSON is answered by
\* executeTool with the Invalid JSON arguments error, its executor is not
\* invoked, the error takes the call's place among the collected results, and
\* after a batch without a rejected or pending promise the loop has gone on
\* to its next request or to the fallback result; a call
\* whose arguments are a JSON string is dispatched and answered as the same
\* call with the parsed object.
C17_BadJsonIsPerCallError ==
  \A r \in Reqs :
    LET st == run[r]
    IN /\ \A i \in DOMAIN st.calls :
            /\ st.calls[i].arguments = BadStringArgs =>
                 /\ SettledAtDispatch(st, i)
                 /\ st.exec[i].content = InvalidJSONArguments
                 /\ Collected(st) => BatchResults(st)[i].content = InvalidJSONArguments
            /\ st.calls[i].arguments = JsonStringArgs =>
                 LET same == ExecuteToolSync([st.calls[i] EXCEPT !.arguments = ObjectArgs],
                                             st.githubToken, st.linearApiKey)
                 IN /\ InSeq(st.calls[i].id, st.dispatched) <=> same.status = "inflight"
                    /\ st.exec[i].status = "resolved" =>
                         IF same.status = "inflight"
                           THEN \E o \in NetworkOutcomes :
                                  st.exec[i].content = ExecutorResult(st.calls[i].name, o)
                           ELSE st.exec[i].content = same.content
       /\ (st.calls # NoCalls /\ AllSettled(st.exec)) =>
            \/ Len(st.sent) > st.calls[1].id[1]
            \/ Exhausted(st)

C17_Witness ==
  \E r \in Reqs :
    /\ run[r].pc = "awaitModel"
    /\ Len(run[r].calls) = 2
    /\ run[r].calls[1].arguments = BadStringArgs
    /\ run[r].calls[1].name = GitHubListRepos
    /\ run[r].calls[2].arguments = JsonStringArgs
    /\ run[r].exec[2].doneAt > 0
    /\ Truthy(run[r].githubToken)

\* The credential the function's prefix asks for is not there.
CredentialAbsent(st, name) ==
  \/ StartsWith(name, "github_") /\ ~Truthy(st.githubToken)
  \/ StartsWith(name, "linear_") /\ ~Truthy(st.linearApiKey)

\* C18: a call of a github_ function without GitHub token, or of a linear_
\* function without Linear key, is answered by executeTool with an {error}
\* result and its executor is not invoked.
C18_MissingCredentialIsPerCallError ==
  \A r \in Reqs :
    LET st == run[r]
    IN \A i \in DOMAIN st.calls :
         CredentialAbsent(st, st.calls[i].name) =>
           /\ SettledAtDispatch(st, i)
           /\ IsErrorJSON(st.exec[i].content)

ReadsArguments(name) == name \in {GitHubGetRepo, LinearListProjects}

\* C19: every invocation of an executor returns, never throws: what it
\* returns is an object, an {error} object when the network call failed,
\* when the name is not a function of the executor, and when the function
\* reads a field of null or undefined arguments; for the functions the loop
\* calls it is the result the loop serializes.
C19_ExecutorsNeverRaise ==
  \A k \in DOMAIN invocations :
    LET e == invocations[k]
    IN /\ e.result.how = "returned"
       /\ e.result.value.t = "object"
       /\ e.outcome = "failed" => IsErrorJSON(e.result.value.v)
       /\ e.name \in {GitHubBogus, LinearBogus} =>
            e.result.value.v = JSONError(<<"Unknown function: ">> \o e.name)
       /\ (ReadsArguments(e.name) /\ e.args \in {NullArgs, AbsentArgs}) =>
            IsErrorJSON(e.result.value.v)
       /\ e.name \in FunctionNames => e.result.value.v = ExecutorResult(e.name, e.outcome)

C19_Witness ==
  \E k \in DOMAIN invocations :
    /\ invocations[k].executor = "linear"
    /\ invocations[k].name = LinearListProjects
    /\ invocations[k].args = NullArgs
    /\ invocations[k].outcome = "ok"
    /\ IsErrorJSON(invocations[k].result.value.v)

Ascending(rows) ==
  \A i, j \in DOMAIN rows : i < j => rows[i].created_at < rows[j].created_at

IsPrefix(a, b) == Len(a) <= Len(b) /\ SubSeq(b, 1, Len(a)) = a

\* The rows of a conversation as they lie in the table.
Stored(msgs, c) == SelectSeq(msgs, LAMBDA m : m.conversation_id = c)

AllConversationIds == {"c1", "c2", "c3", "c4", "c9"}

\* C20: in every state of the store getMessages and getConversation return
\* the rows of the conversation in ascending order of created_at (getMessages
\* the first `limit` of them), and every store operation leaves the rows of
\* a conversation it does not delete as they were, with new rows only at the
\* end; a conversation goes with all its rows.
C20_OrderedAppendOnly ==
  /\ [](\A c \in AllConversationIds :
          LET all == GetConversation(conversations, messages, c).messages
          IN /\ Ascending(all)
             /\ c \in DOMAIN conversations =>
                  /\ Len(all) = Len(Stored(messages, c))
                  /\ \A i \in DOMAIN all : InSeq(all[i], Stored(messages, c))
             /\ c \notin DOMAIN conversations => Stored(messages, c) = <<>>
             /\ \A limit \in 0..(MaxMessages + 1) :
                  GetMessages(messages, c, limit) = Take(all, limit))
  /\ [][\A c \in DOMAIN conversations :
          LET before == GetConversation(conversations, messages, c).messages
              after == GetConversation(conversations', messages', c)
          IN IF after.found THEN IsPrefix(before, after.messages)
             ELSE Stored(messages', c) = <<>>]_vars

C20_Witness ==
  /\ "c1" \notin DOMAIN conversations
  /\ Len(messages) >= 3
  /\ messages[1].conversation_id # messages[2].conversation_id
  /\ messages[3].conversation_id = messages[1].conversation_id
  /\ messages[1].created_at > 2

WritesMessage(rq) == rq.pc \in {"addUser", "addAssistant", "streamAddUser"}

\* C21: with deletions between any two steps of a chat request, every stored
\* row names a conversation that exists; a step that removes a conversation
\* removes all its rows and no others; and a request that writes a message
\* after its conversation was deleted fails and leaves the rows as they were.
C21_NoOrphans ==
  /\ [](\A i \in DOMAIN messages : messages[i].conversation_id \in DOMAIN conversations)
  /\ [][\A c \in DOMAIN conversations :
          c \notin DOMAIN conversations' =>
            /\ Stored(messages', c) = <<>>
            /\ \A d \in DOMAIN conversations' :
                 Stored(messages', d) = Stored(messages, d)]_vars
  /\ [][\A r \in Reqs :
          (/\ WritesMessage(req[r])
           /\ req[r].convId \notin DOMAIN conversations
           /\ req'[r] # req[r])
          => /\ messages' = messages
             /\ req'[r].pc = "done"
             /\ req'[r].error = ForeignKeyError
             /\ req'[r].stored = req[r].stored]_vars

C21_Witness ==
  \E r \in Reqs :
    /\ req[r].pc = "done"
    /\ req[r].error = ForeignKeyError
    /\ req[r].convId = "c1"
    /\ Len(req[r].stored) = 1
    /\ "c1" \notin DOMAIN conversations
    /\ Stored(messages, "c1") = <<>>

Pairs == {[agent_id |-> u.agent_id, label |-> u.label] : u \in {upserts[i] : i \in DOMAIN upserts}}

Blocks(rows, pair) ==
  SelectSeq(rows, LAMBDA m : m.agent_id = pair.agent_id /\ m.label = pair.label)

LastWrite(pair) ==
  LET writes == SelectSeq(upserts, LAMBDA u : u.agent_id = pair.agent_id
                                              /\ u.label = pair.label)
  IN writes[Len(writes)].value

\* C22: after any sequence of upsert statements, issued by requests that
\* overlap, agent_memory holds exactly one row for each (agent, label) pair
\* written, its value is that of the last statement for the pair, and a
\* statement for a pair that has a row adds no row.
C22_UpsertOverwrites ==
  /\ [](/\ \A pair \in Pairs :
             /\ Len(Blocks(agent_memory, pair)) = 1
             /\ Blocks(agent_memory, pair)[1].value = LastWrite(pair)
        /\ Len(agent_memory) = Cardinality(Pairs))
  /\ [][\A r \in Reqs :
          (/\ upserts' # upserts
           /\ memreq[r].pc = "upsert" /\ memreq'[r].pc = "done"
           /\ [agent_id |-> memreq[r].agentId, label |-> memreq[r].label] \in Pairs)
          => Len(agent_memory') = Len(agent_memory)]_vars

C22_Witness ==
  /\ Len(upserts) = 3
  /\ upserts[1].agent_id = upserts[3].agent_id
  /\ upserts[1].label = upserts[3].label
  /\ upserts[1].value # upserts[3].value
  /\ upserts[2].label # upserts[1].label
  /\ Len(agent_memory) = 2
  /\ agent_memory[1].value = upserts[3].value
  /\ \A r \in AllReqs : memreq[r].pc = "done" /\ memreq[r].status = 200

ModelFailure(r, error) ==
  /\ req[r].route = "chat"
  /\ req[r].pc = "done"
  /\ \/ ~req[r].loopInvoked /\ req[r].error = ChatError(error)
     \/ /\ req[r].loopInvoked
        /\ run[r].pc = "raised"
        /\ run[r].error = error
        /\ req[r].error = error

NonEmpty(contents) == SelectSeq(contents, LAMBDA c : c # "")

\* C24: however the body is cut into network chunks, what chatStream has
\* enqueued is at any time a prefix of the non-empty contents of the lines
\* sent, and when the stream is closed it is all of them.
C24_FragmentsAreTheContents ==
  /\ IsPrefix(stream.enqueued, NonEmpty(stream.lines))
  /\ stream.closed => stream.enqueued = NonEmpty(stream.lines)

SSEChunk(text) == [chunk |-> text, done |-> FALSE]

SSEDone == [chunk |-> "", done |-> TRUE]

RECURSIVE Concatenation(_)
Concatenation(fragments) ==
  IF fragments = <<>> THEN <<>>
  ELSE <<Head(fragments)>> \o Concatenation(Tail(fragments))

\* C25: once the stream of a stream request is closed and the request is
\* answered, the events written are one chunk event per fragment the stream
\* delivered, in order, then one done event, and the last row the request
\* stored is the assistant message made of the fragments.
C25_ChunksThenDoneThenStored ==
  \A r \in Reqs :
    (req[r].route = "stream" /\ req[r].pc = "done" /\ stream.pc = "closed") =>
      /\ req[r].events = [i \in DOMAIN stream.enqueued |-> SSEChunk(stream.enqueued[i])]
                           \o <<SSEDone>>
      /\ Len(req[r].stored) = 2
      /\ req[r].stored[2].role = "assistant"
      /\ req[r].stored[2].content = Concatenation(stream.enqueued)

\* The assistant messages of a run's own responses that asked for tools.
OwnAssistantMessages(st) ==
  LET asking == SelectSeq(st.received, LAMBDA response : RequestsToolCalls(response))
  IN [i \in DOMAIN asking |-> asking[i].message]

\* What a run has appended to its working sequence.
Appended(st) == SubSeq(st.currentMessages, Len(st.messages) + 1, Len(st.currentMessages))

\* C26: the array a caller passed is the same after every step of every
\* run, and what a run has appended to its working sequence is made of the
\* assistant messages of its own responses and of the results of its own
\* calls, also while another run is under way.
C26_OwnWorkingCopy ==
  /\ [][\A r \in Reqs : run'[r].messages = run[r].messages]_vars
  /\ [](\A r \in Reqs :
          LET st == run[r]
          IN /\ Len(st.sent) > 0 => st.sent[1] = st.messages
             /\ IsPrefix(st.messages, st.currentMessages)
             /\ SelectSeq(Appended(st), LAMBDA m : m.role = "assistant")
                  = OwnAssistantMessages(st)
             /\ [i \in DOMAIN ToolMessages(Appended(st)) |->
                   ToolMessages(Appended(st))[i].content]
                  = [i \in DOMAIN st.allToolResults |-> st.allToolResults[i].content])

C26_Witness ==
  /\ run["r1"].pc = "awaitModel" /\ Len(Appended(run["r1"])) = 2
  /\ run["r2"].pc = "awaitTools" /\ Len(Appended(run["r2"])) = 1
  /\ Appended(run["r1"])[1] # Appended(run["r2"])[1]

FinalAnswer(st) == st.pc = "returned" /\ ~st.result.maxIterationsReached

Fallback(st) == st.pc = "returned" /\ st.result.maxIterationsReached

ModelFailureRaised(st) ==
  /\ st.pc = "raised"
  /\ st.received # <<>>
  /\ ~st.received[Len(st.received)].ok
  /\ st.error = st.received[Len(st.received)].error

\* C27: when no request to the runtime and no executor call hangs, a run
\* that was started ends, and it ends with the final answer, with the
\* fallback of the exhausted budget, or with the model failure raised.
C27_RunEndsInOneOfThree ==
  \A r \in AllReqs :
    (run[r].pc # "idle") ~>
       [](FinalAnswer(run[r]) \/ Fallback(run[r]) \/ ModelFailureRaised(run[r]))

\* C28: every health request whose probes are done is answered; the answer
\* is healthy with 200 when the model runtime answered the probe and the
\* store answered its query, degraded with 503 when one of them did not, and
\* never the 500 of the handler's catch block.
C28_HealthyIffBothReachable ==
  /\ [](\A i \in DOMAIN health.reports :
          LET report == health.reports[i]
              both == report.ollama.error = EmptyString /\ report.database.error = EmptyString
          IN /\ report.code \in {200, 503}
             /\ report.code = 200 <=> both
             /\ report.status = "healthy" <=> both
             /\ report.status = "degraded" <=> ~both)
  /\ [][(health.pc = "probing" /\ health'.pc # "probing")
          => Len(health'.reports) = Len(health.reports) + 1]_vars

C28_Witness ==
  /\ Len(health.reports) = 3
  /\ health.reports[1].code = 200
  /\ health.reports[2].code = 503 /\ health.reports[2].ollama.connected
  /\ health.reports[3].code = 503 /\ health.reports[3].database.connected

\* C29: no step of a request handler (chat, stream, upload, memory,
\* settings, conversation deletion, health, proxy) changes the agent
\* registry: it holds the definitions loaded at startup for ever.
C29_RegistryFixed ==
  /\ [][agents' = agents]_vars
  /\ [](agents = AgentDefs)

C29_Witness ==
  /\ env.GITHUB_TOKEN = <<"secret">>
  /\ "c2" \notin DOMAIN conversations
  /\ \E r \in Reqs : req[r].route = "upload" /\ req[r].pc = "done" /\ req[r].status = 200
  /\ agents = AgentDefs

\* The tool-role messages pushed for a batch of calls.
IsToolBatch(msgs, calls) ==
  /\ Len(msgs) = Len(calls)
  /\ \A i \in DOMAIN msgs : msgs[i].role = "tool" /\ msgs[i].tool_calls = NoCalls

\* C30: the request of iteration k+1 carries the messages of the request of
\* iteration k, then the assistant message of response k with its tool
\* calls, then one tool-role message per call of it, and nothing else; the
\* messages the run was started with are the beginning of every request.
C30_RequestsGrowByOneRound ==
  \A r \in Reqs :
    LET st == run[r]
    IN /\ \A k \in DOMAIN st.sent : IsPrefix(st.messages, st.sent[k])
       /\ Len(st.sent) > 0 => st.sent[1] = st.messages
       /\ \A k \in 1..(Len(st.sent) - 1) :
            LET before == st.sent[k]
                after == st.sent[k + 1]
                assistantMsg == st.received[k].message
                n == Len(assistantMsg.tool_calls)
            IN /\ RequestsToolCalls(st.received[k])
               /\ Len(after) = Len(before) + 1 + n
               /\ SubSeq(after, 1, Len(before)) = before
               /\ after[Len(before) + 1] = assistantMsg
               /\ IsToolBatch(SubSeq(after, Len(before) + 2, Len(after)),
                              assistantMsg.tool_calls)

C30_Witness ==
  \E r \in Reqs :
    /\ Len(run[r].sent) = 2
    /\ Len(run[r].messages) = 2
    /\ Len(run[r].sent[2]) = 5
    /\ run[r].sent[2][1] = SystemMessage

Occurrences(x, seq) == Cardinality({j \in DOMAIN seq : seq[j] = x})

\* The call has arguments that are an object or a string that parses, a name
\* of one of the two executors, and the credential of that executor.
Dispatchable(st, call) ==
  /\ call.arguments \in {ObjectArgs, JsonStringArgs}
  /\ StartsWith(call.name, "github_") \/ StartsWith(call.name, "linear_")
  /\ ~CredentialAbsent(st, call.name)

\* C31: a run sends one request per iteration and none after a failed one,
\* and every call the model requested reaches its executor at most once:
\* once when its arguments parse and its credential is there, whatever the
\* executor answers, and only calls the model requested are dispatched.
C31_NothingRetried ==
  \A r \in Reqs :
    LET st == run[r]
        requested == RequestedCalls([k \in DOMAIN st.received |-> st.received[k].message])
    IN /\ Len(st.sent) = st.iterations
       /\ Len(st.received) \in {Len(st.sent) - 1, Len(st.sent)}
       /\ \A k \in DOMAIN st.received : ~st.received[k].ok => Len(st.sent) = k
       /\ \A j \in DOMAIN st.dispatched :
            /\ Occurrences(st.dispatched[j], st.dispatched) = 1
            /\ \E i \in DOMAIN requested : requested[i].id = st.dispatched[j]
       /\ \A i \in DOMAIN requested :
            Dispatchable(st, requested[i]) =>
              Occurrences(requested[i].id, st.dispatched) = 1

C31_Witness ==
  \E r \in Reqs :
    /\ Len(run[r].sent) = 2
    /\ Len(run[r].dispatched) = 2
    /\ Len(run[r].calls) = 1
    /\ run[r].exec[1].status = "resolved"
    /\ run[r].exec[1].content = ExecutorResult(run[r].calls[1].name, "failed")
    /\ run[r].pc = "returned"


\* The messages a request put together for the model, without the system
\* message at their head.
HistorySent(rq) == SubSeq(rq.ollamaMessages, 2, Len(rq.ollamaMessages))

AsMessages(rows) == [i \in DOMAIN rows |-> Message(rows[i].role, rows[i].content, NoCalls, NoId)]

\* The rows of the request's conversation created no later than its own user
\* row, whichever request stored them.
RowsUpToOwn(rq) ==
  SelectSeq(Stored(messages, rq.convId),
            LAMBDA m : m.created_at <= rq.stored[1].created_at)

RolesOf(rows) == [i \in DOMAIN rows |-> rows[i].role]

\* C32: chat requests on one conversation are not serialized: the history a
\* request sends to the model starts with every row stored in the
\* conversation up to its own user message (up to the limit of the query),
\* the user messages of other requests included, whether or not their
\* assistant replies are stored yet; so the execution exists in which one
\* history holds the other request's unanswered user message and the stored
\* log ends user, user, assistant, assistant.
C32_HistoryHoldsOthersRows ==
  \A r \in Reqs :
    (req[r].route = "chat" /\ req[r].ollamaMessages # <<>>) =>
      IsPrefix(AsMessages(Take(RowsUpToOwn(req[r]), HistoryLimit)), HistorySent(req[r]))

C32_Witness ==
  \E r \in Reqs : \E q \in Reqs \ {r} :
    LET log == Stored(messages, req[r].convId)
        sent == HistorySent(req[r])
        n == Len(log)
        k == Len(sent)
    IN /\ req[r].convId = req[q].convId
       /\ req[r].status = 200 /\ req[q].status = 200
       /\ Len(req[r].stored) = 2 /\ Len(req[q].stored) = 2
       /\ n >= 4 /\ RolesOf(SubSeq(log, n - 3, n)) = <<"user", "user", "assistant", "assistant">>
       /\ log[n - 3] = req[q].stored[1] /\ log[n - 2] = req[r].stored[1]
       /\ k >= 2 /\ sent[k - 1] = AsMessages(<<req[q].stored[1]>>)[1]
       /\ sent[k] = AsMessages(<<req[r].stored[1]>>)[1]
       /\ req[q].stored[2].created_at > req[r].stored[1].created_at
       /\ ~InSeq(AsMessages(<<req[q].stored[2]>>)[1], sent)


Position(x, seq) == CHOOSE j \in DOMAIN seq : seq[j] = x

\* The catalog holds the GitHub functions iff the GitHub credential is not
\* empty, the Linear functions iff the Linear credential is not empty, the
\* GitHub functions first, and nothing else.
CatalogFollowsCredentials(catalog, githubToken, linearApiKey) ==
  /\ \A i \in DOMAIN GitHubTools : InSeq(GitHubTools[i], catalog) <=> githubToken # EmptyString
  /\ \A i \in DOMAIN LinearTools : InSeq(LinearTools[i], catalog) <=> linearApiKey # EmptyString
  /\ \A i \in DOMAIN GitHubTools : \A j \in DOMAIN LinearTools :
       (InSeq(GitHubTools[i], catalog) /\ InSeq(LinearTools[j], catalog)) =>
         Position(GitHubTools[i], catalog) < Position(LinearTools[j], catalog)
  /\ \A k \in DOMAIN catalog : InSeq(catalog[k], GitHubTools) \/ InSeq(catalog[k], LinearTools)

\* C33: once a chat request has loaded its history, it has started the loop
\* exactly when the catalog of its credentials is not empty, and has called
\* the model directly exactly once otherwise (so also when both credentials
\* are empty); the loop was handed that catalog, which holds the GitHub
\* functions iff the GitHub credential is not empty and the Linear functions
\* iff the Linear credential is not empty, GitHub first.
C33_LoopIffCatalog ==
  \A r \in Reqs :
    (req[r].route = "chat" /\ req[r].ollamaMessages # <<>>) =>
      LET rq == req[r]
          catalog == GetAvailableTools(rq.ghToken, rq.lnKey)
      IN /\ CatalogFollowsCredentials(catalog, rq.ghToken, rq.lnKey)
         /\ rq.loopInvoked <=> Len(catalog) > 0
         /\ rq.loopInvoked => (rq.chatSent = <<>> /\ run[r].pc # "idle"
                                 /\ run[r].githubToken = rq.ghToken
                                 /\ run[r].linearApiKey = rq.lnKey)
         /\ ~rq.loopInvoked => (Len(rq.chatSent) = 1 /\ run[r] = IdleRun)
         /\ (rq.ghToken = EmptyString /\ rq.lnKey = EmptyString) =>
              (~rq.loopInvoked /\ Len(rq.chatSent) = 1)

C33_Witness ==
  \E r \in Reqs :
    /\ req[r].route = "chat" /\ req[r].status = 200
    /\ req[r].ghToken # EmptyString /\ req[r].lnKey # EmptyString
    /\ req[r].loopInvoked /\ req[r].chatSent = <<>>
    /\ GetAvailableTools(req[r].ghToken, req[r].lnKey) = GitHubTools \o LinearTools
    /\ Len(run[r].sent) >= 1


\* C34: the history a chat request sends to the model ends with the user
\* message this request has just stored, whatever the number of rows the
\* conversation held before.
C34_HistoryEndsWithOwnMessage ==
  \A r \in Reqs :
    (req[r].route = "chat" /\ req[r].ollamaMessages # <<>>) =>
      LET sent == req[r].ollamaMessages
      IN /\ Len(req[r].stored) >= 1
         /\ sent[Len(sent)] = AsMessages(<<req[r].stored[1]>>)[1]


\* The three errors of a call that dispatch cannot place.
DispatchErrors(name) ==
  {JSONErrorTool(<<"Unknown tool: ">> \o name, name),
   JSONErrorTool(<<"GitHub token not configured">>, name),
   JSONErrorTool(<<"Linear API key not configured">>, name),
   JSONError(<<"Unknown function: ">> \o name)}

\* C35: a call of a function that is in the catalog of the credentials it is
\* executed with never settles to an unknown-tool, unknown-function or
\* credential-not-configured error, and when its arguments parse it goes to
\* the executor of its prefix, which has an entry for the name.
C35_CatalogAndDispatchAgree ==
  \A k \in DOMAIN invocations :
    LET inv == invocations[k]
    IN ("githubToken" \in DOMAIN inv
          /\ InSeq(inv.name, GetAvailableTools(inv.githubToken, inv.linearApiKey))) =>
         /\ inv.result.content \notin DispatchErrors(inv.name)
         /\ inv.args \in {ObjectArgs, JsonStringArgs} =>
              /\ inv.result.status = "resolved"
              /\ \/ inv.executor = "github" /\ inv.name \in GitHubCases
                 \/ inv.executor = "linear" /\ inv.name \in LinearFunctionMap

C35_Witness ==
  \E k \in DOMAIN invocations :
    LET inv == invocations[k]
    IN /\ "githubToken" \in DOMAIN inv
       /\ inv.name = <<"linear_", "update_issue">>
       /\ inv.githubToken = EmptyString /\ inv.linearApiKey # EmptyString
       /\ inv.args = JsonStringArgs /\ inv.outcome = "ok"
       /\ inv.executor = "linear" /\ inv.result = Resolved(<<"[]">>)


\* The model call of the chat request, direct or through the loop, has
\* failed.
ChatFailed(rq, st) ==
  \/ ~rq.loopInvoked /\ rq.chatSent # <<>> /\ rq.error # EmptyString
  \/ rq.loopInvoked /\ st.pc = "raised"

\* C36: a chat request whose model call or loop fails after its user message
\* was stored answers with an error status; its user row and its
\* conversation stay and it stores no assistant row. A request stores its
\* assistant row only once it holds the final or fallback text, and answers
\* 200 only after that row is stored.
C36_FailureKeepsUserMessageOnly ==
  \A r \in Reqs :
    LET rq == req[r]
    IN rq.route = "chat" =>
         /\ Len(rq.stored) >= 1 =>
              /\ rq.stored[1].role = "user" /\ InSeq(rq.stored[1], messages)
              /\ rq.convId \in DOMAIN conversations
         /\ ChatFailed(rq, run[r]) =>
              /\ Len(rq.stored) = 1
              /\ rq.pc = "done" => rq.status \in {500, 503}
              /\ rq.pc \in {"chat", "tools", "done"}
         /\ Len(rq.stored) = 2 =>
              /\ rq.stored[2].role = "assistant"
              /\ rq.stored[2].content = rq.assistantMessage
              /\ InSeq(rq.stored[2], messages)
              /\ IF rq.loopInvoked
                   THEN run[r].pc = "returned" /\ run[r].result.message = rq.assistantMessage
                   ELSE rq.error = EmptyString
         /\ Len(rq.stored) <= 2
         /\ rq.status = 200 => Len(rq.stored) = 2

C36_Witness ==
  \E r \in Reqs :
    /\ req[r].route = "chat" /\ req[r].pc = "done" /\ req[r].status = 500
    /\ req[r].body.conversationId = NoConversation
    /\ req[r].loopInvoked /\ run[r].pc = "raised" /\ Len(run[r].sent) = 2
    /\ Len(req[r].stored) = 1
    /\ Stored(messages, req[r].convId) = req[r].stored


\* C37: the credentials of a chat request are fixed when it is received:
\* each is the value of the request body when that is not empty, else the
\* value the environment holds at that moment, which is the one last set
\* through the settings route (or the startup value). A settings request
\* changes the environment only: requests already received keep their
\* credentials, and a later request with a credential of its own uses its
\* own.
C37_BodyCredentialElseEnvironment ==
  [][\A r \in Reqs :
       /\ (req[r].pc = "new" /\ req'[r].route = "chat"
             /\ req'[r].pc \in {"getConversation", "createConversation"}) =>
            /\ req'[r].ghToken = IF req'[r].body.githubToken # EmptyString
                                   THEN req'[r].body.githubToken ELSE env.GITHUB_TOKEN
            /\ req'[r].lnKey = IF req'[r].body.linearApiKey # EmptyString
                                 THEN req'[r].body.linearApiKey ELSE env.LINEAR_API_KEY
       /\ (req[r].route = "chat" /\ req[r].pc \notin {"new", "done"}) =>
            /\ req'[r].ghToken = req[r].ghToken /\ req'[r].lnKey = req[r].lnKey
            /\ req'[r].loopInvoked =>
                 /\ run'[r].githubToken = req[r].ghToken
                 /\ run'[r].linearApiKey = req[r].lnKey
       /\ env' # env => req' = req /\ run' = run
    ]_vars

C37_Witness ==
  \E r \in Reqs :
    /\ req[r].route = "chat" /\ req[r].loopInvoked
    /\ req[r].body.githubToken = EmptyString /\ req[r].ghToken = <<"secret">>
    /\ req[r].body.linearApiKey = <<"secret">> /\ req[r].lnKey = <<"secret">>
    /\ env.GITHUB_TOKEN = <<"secret">> /\ env.LINEAR_API_KEY = <<"startup">>


\* C38: no step of initAgentMemory changes a row of agent_memory that is
\* there: the rows stay as they are, and a row it adds is for an agent and
\* label that had none. So a value written through the memory route is
\* still there after initAgentMemory has run again.
C38_InitCreatesAbsentBlocksOnly ==
  [][startup.pc \in {"getMemory", "upsert"} =>
       /\ IsPrefix(agent_memory, agent_memory')
       /\ \A i \in DOMAIN agent_memory' :
            i > Len(agent_memory) =>
              ~\E j \in DOMAIN agent_memory :
                 /\ agent_memory[j].agent_id = agent_memory'[i].agent_id
                 /\ agent_memory[j].label = agent_memory'[i].label
    ]_vars

C38_Witness ==
  /\ startup.pc = "listening" /\ startup.boots = 2 /\ startup.initialized = 0
  /\ Len(upserts) = 2
  /\ upserts[1] = ConfiguredBlocks[1]
  /\ upserts[2] = [agent_id |-> "a0", label |-> <<"persona">>, value |-> <<"v2">>]
  /\ agent_memory = <<[agent_id |-> "a0", label |-> <<"persona">>, value |-> <<"v2">>,
                       updated_at |-> 2]>>


\* The requests waitForOllama makes: at most maxRetries, none after a
\* success, and the value returned is true after a success and false after
\* maxRetries failures.
AttemptsAsStated(st) ==
  /\ Len(st.outcomes) <= st.maxRetries
  /\ \A k \in DOMAIN st.outcomes : k < Len(st.outcomes) => st.outcomes[k] = "failed"
  /\ (st.outcomes # <<>> /\ st.outcomes[Len(st.outcomes)] = "ok") =>
       st.pc = "returned" /\ st.result
  /\ st.pc = "returned" =>
       IF st.result THEN st.outcomes # <<>> /\ st.outcomes[Len(st.outcomes)] = "ok"
       ELSE Len(st.outcomes) = st.maxRetries
            /\ \A k \in DOMAIN st.outcomes : st.outcomes[k] = "failed"

\* C39: waitForOllama makes at most maxRetries attempts, returns true at the
\* first success without a further attempt and false after maxRetries
\* failures, and never waits longer than 15000 ms between attempts.
C39_BoundedAttemptsAndWaits ==
  /\ AttemptsAsStated(startup)
  /\ \A k \in DOMAIN startup.waits : startup.waits[k] <= DelayCap

====
